---- MODULE Spec2Model ----
(***************************************************************************)
(* Model of the neuron gateway core:                                       *)
(*   - the tag group with its change timestamp (src/src/base/group.c)      *)
(*   - the manager's node / subscription flows                             *)
(*     (src/src/core/manager_internal.c)                                   *)
(***************************************************************************)
EXTENDS Integers, Sequences, FiniteSets, TLC

(***************************************************************************)
(* Bounds                                                                  *)
(***************************************************************************)
\* gettimeofday() readings are drawn from 1..MaxClock (microseconds)
MaxClock == 2
\* largest number of tags held by the modelled group
MaxTags == 2

TagNames == {"t1", "t2"}
\* the tags handed to the group calls: name and attribute bitset
TagInputs ==
    {[name |-> "t1", attribute |-> a] : a \in {{"WRITE"}, {"READ"}, {"READ", "STATIC"}}}
    \cup {[name |-> "t2", attribute |-> a] : a \in {{"SUBSCRIBE"}, {"STATIC", "WRITE"}}}
Intervals == {1000, 2000}
ClockReadings == 1..MaxClock

VARIABLES
    group,       \* struct neu_group: [tags, interval, timestamp]
    consumer,    \* the consumer's cached plan: [timestamp, static_tags, other_tags, interval]
    cb_calls,    \* invocations of the change callback made by the last call
    g_last,      \* the last group call: [op, name, ret]
    pending      \* a tag mutation succeeded since the consumer's last change_test

gvars == <<group, consumer, cb_calls, g_last, pending>>

\* longest driver batch handed to neu_manager_add_drivers
MaxBatch == 2
\* largest number of subscriptions the subscription manager is made to hold
MaxSubs == 2

\* names an admin request may give to a node
NodeNames == {"n1", "n2"}
\* plugin names an admin request may carry; "nolib" is not a loaded library
PluginNames == {"modbus", "mqtt", "monitor", "nolib"}
\* subscription parameters: none, no topic field, empty topic, a topic
Params == {"NULL", "{}", "{topic:''}", "{topic:'/x'}"}

VARIABLES
    nodes,       \* node manager: node name -> [plugin, single, groups]
    subs,        \* subscription manager: set of [driver, group, app]
    storage,     \* persisted node names
    sent,        \* messages the manager sent during the last call
    alive,       \* FALSE once the manager process has aborted
    m_last       \* the last manager call: [op, ret, arg]

mvars == <<nodes, subs, storage, sent, alive, m_last>>

\* entries of the event table that are modelled
MaxSlots == 2
\* timers that are in the table at once
MaxTimers == 1
\* last instant of the monotonic clock the timers are followed to
MaxNow == 6
\* how many intervals make a window much longer than the interval
Much == 4
\* #define EVENT_SIZE
EVENT_SIZE == 1400

VARIABLES
    event_datas, \* struct neu_events.event_datas: index -> entry
    loop,        \* the event_loop thread: [pc, cur], and between epoll_wait
                 \* and the switch [pc, cur, type, seen]
    time,         \* CLOCK_MONOTONIC, in timer units
    e_state,     \* "running", or what a failed assertion or wild write left
    e_last       \* the last event call or loop step: [op, ret, index]

evars == <<event_datas, loop, time, e_state, e_last>>

\* message pointers a socket of the bus holds at most
MaxQueue == 2

VARIABLES
    bus,         \* the pointers a socket holds, oldest first
    msg_p,       \* the receiver's *msg_p
    b_last       \* the last bus call: [op, n, msg, ret]

bvars == <<bus, msg_p, b_last>>

\* publish attempts an MQTT app is followed through
MaxPublish == 2

VARIABLES
    route_tbl,   \* the MQTT app's routes: set of [driver, group, topic]
    metrics,     \* the MQTT app's node metrics: name -> value
    attempts,    \* its publish attempts, in order: what each did to the
                 \* metrics and to its payload buffer
    q_last       \* the last MQTT handler call: [op, ret, driver, group]

qvars == <<route_tbl, metrics, attempts, q_last>>

\* longest tag address handed to the address parser
MaxAddr == 4

VARIABLES
    t_last       \* the last neu_datatag_parse_addr_option call:
                 \* [type, address, ret, option]

tvars == <<t_last>>

\* registrations of one metric name that are followed
MaxRefs == 2

VARIABLES
    registered_metrics, \* g_metrics_.registered_metrics: name -> entry
    refs,        \* per name, the registrations that succeeded less the
                 \* unregistrations of a registered name
    r_alive,     \* FALSE once the process was killed by a signal
    r_last       \* the last registry call: [op, name, ret]

rvars == <<registered_metrics, refs, r_alive, r_last>>

VARIABLES
    ct,          \* the thread in neu_group_change_test: [pc], and between
                 \* the split and the callback [pc, static_tags, other_tags]
    mut,         \* the thread mutating the group: "idle", or "stamp"
                 \* between the change and update_timestamp
    stamped      \* the tags and interval the group had when its timestamp
                 \* was last written

cvars == <<ct, mut, stamped>>

\* nodes whose metrics are registered at once
MaxNodes == 2

VARIABLES
    node_metrics, \* g_metrics_.node_metrics, in table order: the type,
                 \* running state and link state of each node's adapter
    g_counts,    \* the six node counters of g_metrics_
    visit,       \* each visiting thread: [pc, i], i the next node of its loop
    v_seen       \* the last callback: the thread and the counters handed

vvars == <<node_metrics, g_counts, visit, v_seen>>

VARIABLES
    node_manager, \* manager->node_manager: the names a lookup finds
    adapters,     \* the adapter made for each name: "none" before any,
                  \* "created", "inited", "uninited", "destroyed"
    flow          \* the call the manager is in: [op, node, pc, setting]

dvars == <<node_manager, adapters, flow>>

\* downstream requests the app has been handed
MaxReqs == 2

VARIABLES
    ctxs         \* the correlation context of each downstream request, in the
                 \* order they came: [kind, made, frees, stale, phase, path]

xvars == <<ctxs>>

\* characters of a string to widen
MaxLen == 3

VARIABLES
    w_last       \* the last call of a widening function: its arguments, what
                 \* it returned and the buffer it left

wvars == <<w_last>>

\* the state of the base library and of the plugins
nvars == <<bvars, qvars, tvars, rvars, cvars, vvars, dvars, xvars, wvars>>
\* what the bus calls, the MQTT handlers, the parser and the registry
\* leave alone
BusRest == <<gvars, mvars, evars, qvars, tvars, rvars, cvars, vvars, dvars, xvars, wvars>>
MqttRest == <<gvars, mvars, evars, bvars, tvars, rvars, cvars, vvars, dvars, xvars, wvars>>
TagRest == <<gvars, mvars, evars, bvars, qvars, rvars, cvars, vvars, dvars, xvars, wvars>>
RegistryRest == <<gvars, mvars, evars, bvars, qvars, tvars, cvars, vvars, dvars, xvars, wvars>>
RaceRest == <<mvars, evars, bvars, qvars, tvars, rvars, vvars, dvars, xvars, wvars>>
VisitRest == <<gvars, mvars, evars, bvars, qvars, tvars, rvars, cvars, dvars, xvars, wvars>>
FlowRest == <<gvars, mvars, evars, bvars, qvars, tvars, rvars, cvars, vvars, xvars, wvars>>
CtxRest == <<gvars, mvars, evars, bvars, qvars, tvars, rvars, cvars, vvars, dvars, wvars>>
WidenRest == <<gvars, mvars, evars, bvars, qvars, tvars, rvars, cvars, vvars, dvars, xvars>>
vars == <<group, consumer, cb_calls, g_last, pending,
          nodes, subs, storage, sent, alive, m_last,
          event_datas, loop, time, e_state, e_last,
          bus, msg_p, b_last,
          route_tbl, metrics, attempts, q_last,
          t_last,
          registered_metrics, refs, r_alive, r_last,
          ct, mut, stamped,
          node_metrics, g_counts, visit, v_seen,
          node_manager, adapters, flow,
          ctxs,
          w_last>>

(***************************************************************************)
(* group.c                                                                 *)
(***************************************************************************)
\* neu_tag_attribute_test: the attribute bit is set in the tag
neu_tag_attribute_test(tag, a) == a \in tag.attribute

\* neu_group_new: calloc'ed group, timestamp 0, no tags
neu_group_new(interval) ==
    [tags |-> <<>>, interval |-> interval, timestamp |-> 0]

\* HASH_FIND_STR over the tag table: index of the element, 0 when absent
HASH_FIND_STR(tags, name) ==
    IF \E i \in 1..Len(tags) : tags[i].name = name
    THEN CHOOSE i \in 1..Len(tags) : tags[i].name = name
    ELSE 0

\* HASH_DEL: remove the element at index i, keeping the order of the rest
HASH_DEL(tags, i) ==
    [j \in 1..(Len(tags) - 1) |-> IF j < i THEN tags[j] ELSE tags[j + 1]]

\* update_timestamp: the group's timestamp becomes the clock reading
update_timestamp(g, now) == [g EXCEPT !.timestamp = now]

\* neu_group_set_interval
neu_group_set_interval(g, interval) == [g EXCEPT !.interval = interval]

\* neu_group_update
neu_group_update(g, interval, now) ==
    IF g.interval # interval
    THEN [ret |-> "SUCCESS",
          group |-> update_timestamp([g EXCEPT !.interval = interval], now)]
    ELSE [ret |-> "SUCCESS", group |-> g]

\* a neu_group_add_tag that replaces the element on a name conflict
neu_group_add_tag_overwrite(g, tag, now) ==
    LET el == HASH_FIND_STR(g.tags, tag.name) IN
    IF el # 0
    THEN [ret |-> "TAG_NAME_CONFLICT", group |-> [g EXCEPT !.tags[el] = tag]]
    ELSE [ret |-> "SUCCESS",
          group |-> update_timestamp([g EXCEPT !.tags = Append(g.tags, tag)], now)]

\* neu_group_add_tag
neu_group_add_tag(g, tag, now) ==
    IF HASH_FIND_STR(g.tags, tag.name) # 0
    THEN [ret |-> "TAG_NAME_CONFLICT", group |-> g]
    ELSE [ret |-> "SUCCESS",
          group |-> update_timestamp([g EXCEPT !.tags = Append(g.tags, tag)], now)]

\* neu_group_update_tag
neu_group_update_tag(g, tag, now) ==
    LET el == HASH_FIND_STR(g.tags, tag.name) IN
    IF el # 0
    THEN [ret |-> "SUCCESS",
          group |-> update_timestamp([g EXCEPT !.tags[el] = tag], now)]
    ELSE [ret |-> "TAG_NOT_EXIST", group |-> g]

\* neu_group_del_tag
neu_group_del_tag(g, tag_name, now) ==
    LET el == HASH_FIND_STR(g.tags, tag_name) IN
    IF el # 0
    THEN [ret |-> "SUCCESS",
          group |-> update_timestamp([g EXCEPT !.tags = HASH_DEL(g.tags, el)], now)]
    ELSE [ret |-> "TAG_NOT_EXIST", group |-> g]

\* a split that files every readable tag under other_tags (the is_readable test)
RECURSIVE split_static_array_readable(_, _, _, _)
split_static_array_readable(tags, i, static_tags, other_tags) ==
    IF i > Len(tags)
    THEN [static_tags |-> static_tags, other_tags |-> other_tags]
    ELSE split_static_array_readable(tags, i + 1,
            IF neu_tag_attribute_test(tags[i], "STATIC")
            THEN Append(static_tags, tags[i]) ELSE static_tags,
            IF neu_tag_attribute_test(tags[i], "SUBSCRIBE")
               \/ neu_tag_attribute_test(tags[i], "READ")
               \/ neu_tag_attribute_test(tags[i], "STATIC")
            THEN Append(other_tags, tags[i]) ELSE other_tags)

\* split_static_array: one pass over the table in iteration order
RECURSIVE split_static_array(_, _, _, _)
split_static_array(tags, i, static_tags, other_tags) ==
    IF i > Len(tags)
    THEN [static_tags |-> static_tags, other_tags |-> other_tags]
    ELSE IF neu_tag_attribute_test(tags[i], "STATIC")
         THEN split_static_array(tags, i + 1, Append(static_tags, tags[i]), other_tags)
         ELSE IF neu_tag_attribute_test(tags[i], "SUBSCRIBE")
                 \/ neu_tag_attribute_test(tags[i], "READ")
              THEN split_static_array(tags, i + 1, static_tags, Append(other_tags, tags[i]))
              ELSE split_static_array(tags, i + 1, static_tags, other_tags)

\* neu_group_change_test: the sequence of callback invocations it makes
neu_group_change_test(g, timestamp) ==
    IF g.timestamp # timestamp
    THEN LET s == split_static_array(g.tags, 1, <<>>, <<>>) IN
         <<[timestamp |-> g.timestamp, static_tags |-> s.static_tags,
            other_tags |-> s.other_tags, interval |-> g.interval]>>
    ELSE <<>>

\* the consumer's callback: cache what the group handed over
group_change(c, calls) ==
    IF calls = <<>> THEN c ELSE calls[Len(calls)]

(***************************************************************************)
(* Group actions                                                           *)
(***************************************************************************)
GroupInit ==
    /\ group = neu_group_new(1000)
    /\ consumer = [timestamp |-> 0, static_tags |-> <<>>, other_tags |-> <<>>,
                   interval |-> 0]
    /\ cb_calls = <<>>
    /\ g_last = [op |-> "new", name |-> "", ret |-> "SUCCESS"]
    /\ pending = FALSE

AddTag ==
    \E tag \in TagInputs, now \in ClockReadings :
        LET r == neu_group_add_tag(group, tag, now) IN
        /\ Len(group.tags) < MaxTags \/ r.ret # "SUCCESS"
        /\ group' = r.group
        /\ g_last' = [op |-> "add_tag", name |-> tag.name, ret |-> r.ret]
        /\ pending' = (pending \/ r.ret = "SUCCESS")
        /\ cb_calls' = <<>>
        /\ UNCHANGED <<consumer, mvars, evars, nvars>>

UpdateTag ==
    \E tag \in TagInputs, now \in ClockReadings :
        LET r == neu_group_update_tag(group, tag, now) IN
        /\ group' = r.group
        /\ g_last' = [op |-> "update_tag", name |-> tag.name, ret |-> r.ret]
        /\ pending' = (pending \/ r.ret = "SUCCESS")
        /\ cb_calls' = <<>>
        /\ UNCHANGED <<consumer, mvars, evars, nvars>>

DelTag ==
    \E name \in TagNames, now \in ClockReadings :
        LET r == neu_group_del_tag(group, name, now) IN
        /\ group' = r.group
        /\ g_last' = [op |-> "del_tag", name |-> name, ret |-> r.ret]
        /\ pending' = (pending \/ r.ret = "SUCCESS")
        /\ cb_calls' = <<>>
        /\ UNCHANGED <<consumer, mvars, evars, nvars>>

GroupUpdate ==
    \E interval \in Intervals, now \in ClockReadings :
        LET r == neu_group_update(group, interval, now) IN
        /\ group' = r.group
        /\ g_last' = [op |-> "update", name |-> "", ret |-> r.ret]
        /\ cb_calls' = <<>>
        /\ UNCHANGED <<consumer, pending, mvars, evars, nvars>>

SetInterval ==
    \E interval \in Intervals :
        /\ group' = neu_group_set_interval(group, interval)
        /\ g_last' = [op |-> "set_interval", name |-> "", ret |-> "SUCCESS"]
        /\ cb_calls' = <<>>
        /\ UNCHANGED <<consumer, pending, mvars, evars, nvars>>

ChangeTest ==
    LET calls == neu_group_change_test(group, consumer.timestamp) IN
    /\ cb_calls' = calls
    /\ consumer' = group_change(consumer, calls)
    /\ g_last' = [op |-> "change_test", name |-> "", ret |-> "SUCCESS"]
    /\ pending' = FALSE
    /\ UNCHANGED <<group, mvars, evars, nvars>>

GroupNext ==
    \/ AddTag
    \/ UpdateTag
    \/ DelTag
    \/ GroupUpdate
    \/ SetInterval
    \/ ChangeTest


(***************************************************************************)
(* Collaborators of manager_internal.c: plugin manager, node manager,      *)
(* subscription manager, adapter, storage and message forwarding           *)
(***************************************************************************)
\* NEU_GROUP_MAX_PER_NODE, scaled down; a driver's groups are named 1..n_group
NEU_GROUP_MAX_PER_NODE == 2
GroupNames == 1..NEU_GROUP_MAX_PER_NODE

\* the loaded plugin libraries (neu_resp_plugin_info_t)
PluginInfo ==
    [modbus  |-> [type |-> "DRIVER", single |-> FALSE, module_name |-> "Modbus"],
     mqtt    |-> [type |-> "APP",    single |-> FALSE, module_name |-> "MQTT"],
     monitor |-> [type |-> "APP",    single |-> TRUE,  module_name |-> "Monitor"]]

\* neu_plugin_manager_find: 0 when the library is loaded
neu_plugin_manager_find(plugin_name) ==
    IF plugin_name \in DOMAIN PluginInfo THEN 0 ELSE -1

\* neu_node_manager_find: the adapter is not NULL
neu_node_manager_find(st, name) == name \in DOMAIN st.nodes

\* neu_node_manager_add: register a fresh adapter (no groups yet)
neu_node_manager_add(st, name, plugin_name) ==
    [st EXCEPT !.nodes =
        [n \in DOMAIN st.nodes \cup {name} |->
            IF n = name
            THEN [plugin |-> plugin_name, single |-> FALSE, groups |-> {}]
            ELSE st.nodes[n]]]

\* neu_node_manager_del
neu_node_manager_del(st, name) ==
    [st EXCEPT !.nodes = [n \in DOMAIN st.nodes \ {name} |-> st.nodes[n]]]

\* neu_node_manager_is_single
neu_node_manager_is_single(st, name) == st.nodes[name].single

\* neu_adapter_get_type
neu_adapter_get_type(st, name) == PluginInfo[st.nodes[name].plugin].type

\* neu_adapter_set_setting: the plugin accepts or rejects the setting
neu_adapter_set_setting(setting) ==
    IF setting = "bad" THEN "NODE_SETTING_INVALID" ELSE "SUCCESS"

\* neu_adapter_driver_group_exist; on an adapter that is not a driver the
\* cast reads past the adapter, and the outcome is whatever the memory holds
neu_adapter_driver_group_exist(st, driver, grp, garbage) ==
    IF neu_adapter_get_type(st, driver) = "DRIVER"
    THEN IF grp \in st.nodes[driver].groups THEN "SUCCESS" ELSE "GROUP_NOT_EXIST"
    ELSE garbage

\* neu_subscribe_manager_sub: unique on (driver, group, app)
neu_subscribe_manager_sub(st, driver, app, grp) ==
    LET s == [driver |-> driver, group |-> grp, app |-> app] IN
    IF s \in st.subs
    THEN [ret |-> "GROUP_ALREADY_SUBSCRIBED", st |-> st]
    ELSE [ret |-> "SUCCESS", st |-> [st EXCEPT !.subs = @ \cup {s}]]

\* neu_subscribe_manager_unsub
neu_subscribe_manager_unsub(st, driver, app, grp) ==
    LET s == [driver |-> driver, group |-> grp, app |-> app] IN
    IF s \in st.subs
    THEN [ret |-> "SUCCESS", st |-> [st EXCEPT !.subs = @ \ {s}]]
    ELSE [ret |-> "GROUP_NOT_SUBSCRIBE", st |-> st]

\* neu_subscribe_manager_unsub_all: drop every subscription of the app
neu_subscribe_manager_unsub_all(st, app) ==
    [st EXCEPT !.subs = {s \in @ : s.app # app}]

\* neu_subscribe_manager_remove(mgr, driver, NULL): drop every (driver, *)
neu_subscribe_manager_remove(st, driver) ==
    [st EXCEPT !.subs = {s \in @ : s.driver # driver}]

\* neu_subscribe_manager_get(mgr, app, NULL, NULL)
neu_subscribe_manager_get(st, app) == {s \in st.subs : s.app = app}

\* neu_subscribe_manager_find_by_driver: the apps subscribed to the driver
neu_subscribe_manager_find_by_driver(st, driver) ==
    {s.app : s \in {x \in st.subs : x.driver = driver}}

\* neu_node_manager_is_driver: FALSE also for a name that is not registered
neu_node_manager_is_driver(st, name) ==
    neu_node_manager_find(st, name) /\ neu_adapter_get_type(st, name) = "DRIVER"

\* neu_node_manager_update_name: names are unique, so the rename is refused
\* when the old name is not registered or the new one is taken
neu_node_manager_update_name(st, name, new_name) ==
    IF ~neu_node_manager_find(st, name)
    THEN [ret |-> "NODE_NOT_EXIST", st |-> st]
    ELSE IF neu_node_manager_find(st, new_name)
    THEN [ret |-> "NODE_EXIST", st |-> st]
    ELSE [ret |-> "SUCCESS",
          st |-> [st EXCEPT !.nodes =
                     [n \in (DOMAIN st.nodes \ {name}) \cup {new_name} |->
                         IF n = new_name THEN st.nodes[name] ELSE st.nodes[n]]]]

\* neu_subscribe_manager_update_driver_name / _update_app_name
neu_subscribe_manager_update_driver_name(st, driver, new_name) ==
    [ret |-> "SUCCESS",
     st |-> [st EXCEPT !.subs =
                {IF x.driver = driver THEN [x EXCEPT !.driver = new_name] ELSE x :
                     x \in st.subs}]]
neu_subscribe_manager_update_app_name(st, app, new_name) ==
    [ret |-> "SUCCESS",
     st |-> [st EXCEPT !.subs =
                {IF x.app = app THEN [x EXCEPT !.app = new_name] ELSE x :
                     x \in st.subs}]]

\* manager_storage_update_node_name
manager_storage_update_node_name(st, node, new_name) ==
    [st EXCEPT !.storage = IF node \in @ THEN (@ \ {node}) \cup {new_name} ELSE @]

\* the elements of a UT_array in iteration order
RECURSIVE utarray(_)
utarray(set) ==
    IF set = {} THEN <<>>
    ELSE LET x == CHOOSE y \in set : TRUE IN <<x>> \o utarray(set \ {x})

\* forward_msg: hand the message to the receiver's address
forward_msg(st, msg) == [st EXCEPT !.sent = Append(@, msg)]

\* sizeof(neu_msg_t *): what one send or receive transfers
PtrSize == 8
\* what send, sendto, recv and recvfrom may return: an error, no byte, a
\* short count, the whole pointer
SysResults == {-1, 0, 4, PtrSize}

\* the value neu_send_msg and neu_send_msg_to return for the system call's n
send_result(n) == IF PtrSize = n THEN 0 ELSE n

\* neu_send_msg_to: sendto returned n; the receiver has the message if the
\* whole pointer went out
neu_send_msg_to(st, msg, n) ==
    [ret |-> send_result(n),
     st |-> IF n = PtrSize THEN [st EXCEPT !.sent = Append(@, msg)] ELSE st]

\* free() and neu_msg_free() on an allocation, by who holds it
Freed(owner) ==
    CASE owner = "none" -> "none"
      [] owner = "manager" -> "freed"
      [] owner = "freed" -> "freed_twice"
      [] OTHER -> "freed_while_owned"

\* a send that put the whole pointer on the bus hands the allocation over
Handed(owner, n) == IF n = PtrSize /\ owner = "manager" THEN "receiver" ELSE owner

\* manager_storage_del_node / manager_storage_add_node
manager_storage_del_node(st, node) == [st EXCEPT !.storage = @ \ {node}]
manager_storage_add_node(st, node) == [st EXCEPT !.storage = @ \cup {node}]

(***************************************************************************)
(* manager_internal.c                                                      *)
(***************************************************************************)
\* neu_manager_add_node as it would be if the name were looked up first
neu_manager_add_node_name_first(st, node_name, plugin_name, setting, fault) ==
    IF neu_node_manager_find(st, node_name)
    THEN [ret |-> "NODE_EXIST", st |-> st]
    ELSE IF neu_plugin_manager_find(plugin_name) # 0
    THEN [ret |-> "LIBRARY_NOT_FOUND", st |-> st]
    ELSE IF PluginInfo[plugin_name].single
    THEN [ret |-> "LIBRARY_NOT_ALLOW_CREATE_INSTANCE", st |-> st]
    ELSE IF fault = "open"
    THEN [ret |-> "LIBRARY_FAILED_TO_OPEN", st |-> st]
    ELSE IF fault = "create"
    THEN [ret |-> "ADAPTER_ERROR", st |-> st]
    ELSE LET st1 == neu_node_manager_add(st, node_name, plugin_name) IN
         IF setting # "NULL" /\ neu_adapter_set_setting(setting) # "SUCCESS"
         THEN [ret |-> neu_adapter_set_setting(setting),
               st |-> neu_node_manager_del(st1, node_name)]
         ELSE [ret |-> "SUCCESS", st |-> st1]

\* neu_manager_add_node as it would be if a refused setting left the node
\* registered
neu_manager_add_node_no_unregister(st, node_name, plugin_name, setting, fault) ==
    IF neu_plugin_manager_find(plugin_name) # 0
    THEN [ret |-> "LIBRARY_NOT_FOUND", st |-> st]
    ELSE IF PluginInfo[plugin_name].single
    THEN [ret |-> "LIBRARY_NOT_ALLOW_CREATE_INSTANCE", st |-> st]
    ELSE IF neu_node_manager_find(st, node_name)
    THEN [ret |-> "NODE_EXIST", st |-> st]
    ELSE IF fault = "open"
    THEN [ret |-> "LIBRARY_FAILED_TO_OPEN", st |-> st]
    ELSE IF fault = "create"
    THEN [ret |-> "ADAPTER_ERROR", st |-> st]
    ELSE LET st1 == neu_node_manager_add(st, node_name, plugin_name) IN
         IF setting # "NULL" /\ neu_adapter_set_setting(setting) # "SUCCESS"
         THEN [ret |-> neu_adapter_set_setting(setting), st |-> st1]
         ELSE [ret |-> "SUCCESS", st |-> st1]

\* neu_manager_add_node; fault names the step the environment makes fail
neu_manager_add_node(st, node_name, plugin_name, setting, fault) ==
    IF neu_plugin_manager_find(plugin_name) # 0
    THEN [ret |-> "LIBRARY_NOT_FOUND", st |-> st]
    ELSE IF PluginInfo[plugin_name].single
    THEN [ret |-> "LIBRARY_NOT_ALLOW_CREATE_INSTANCE", st |-> st]
    ELSE IF neu_node_manager_find(st, node_name)
    THEN [ret |-> "NODE_EXIST", st |-> st]
    ELSE IF fault = "open"
    THEN [ret |-> "LIBRARY_FAILED_TO_OPEN", st |-> st]
    ELSE IF fault = "create"
    THEN [ret |-> "ADAPTER_ERROR", st |-> st]
    ELSE LET st1 == neu_node_manager_add(st, node_name, plugin_name) IN
         IF setting # "NULL" /\ neu_adapter_set_setting(setting) # "SUCCESS"
         THEN [ret |-> neu_adapter_set_setting(setting),
               st |-> neu_node_manager_del(st1, node_name)]
         ELSE [ret |-> "SUCCESS", st |-> st1]

\* neu_manager_del_node as it would be if it left the node in the node manager
neu_manager_del_node_subs_only(st, node_name) ==
    IF ~neu_node_manager_find(st, node_name)
    THEN [ret |-> "NODE_NOT_EXIST", st |-> st]
    ELSE [ret |-> "SUCCESS", st |-> neu_subscribe_manager_remove(st, node_name)]

\* neu_manager_del_node
neu_manager_del_node(st, node_name) ==
    IF ~neu_node_manager_find(st, node_name)
    THEN [ret |-> "NODE_NOT_EXIST", st |-> st]
    ELSE [ret |-> "SUCCESS",
          st |-> neu_node_manager_del(
                     neu_subscribe_manager_remove(st, node_name), node_name)]

\* neu_manager_update_node_name
neu_manager_update_node_name(st, node, new_name) ==
    LET s == IF neu_node_manager_is_driver(st, node)
             THEN neu_subscribe_manager_update_driver_name(st, node, new_name)
             ELSE neu_subscribe_manager_update_app_name(st, node, new_name)
    IN IF s.ret = "SUCCESS"
       THEN neu_node_manager_update_name(s.st, node, new_name)
       ELSE s

\* neu_parse_param(params, NULL, 1, &elem) for elem.name = "topic":
\* elem.v.val_str, "NULL" when the field is absent
neu_parse_param(params) ==
    IF params = "{topic:''}" THEN ""
    ELSE IF params = "{topic:'/x'}" THEN "/x"
    ELSE "NULL"

\* manager_subscribe
manager_subscribe(st, app, driver, grp, garbage) ==
    IF ~neu_node_manager_find(st, driver)
    THEN [ret |-> "NODE_NOT_EXIST", st |-> st]
    ELSE IF neu_adapter_driver_group_exist(st, driver, grp, garbage) # "SUCCESS"
    THEN [ret |-> neu_adapter_driver_group_exist(st, driver, grp, garbage), st |-> st]
    ELSE neu_subscribe_manager_sub(st, driver, app, grp)

\* neu_manager_subscribe as it would be if the topic guard forgot the plugin
neu_manager_subscribe_any_plugin(st, app, driver, grp, params, garbage) ==
    IF ~neu_node_manager_find(st, app)
    THEN [ret |-> "NODE_NOT_EXIST", st |-> st]
    ELSE IF params # "NULL" /\ neu_parse_param(params) = ""
    THEN [ret |-> "MQTT_SUBSCRIBE_FAILURE", st |-> st]
    ELSE IF neu_adapter_get_type(st, app) # "APP"
    THEN [ret |-> "NODE_NOT_ALLOW_SUBSCRIBE", st |-> st]
    ELSE manager_subscribe(st, app, driver, grp, garbage)

\* neu_manager_subscribe
neu_manager_subscribe(st, app, driver, grp, params, garbage) ==
    IF ~neu_node_manager_find(st, app)
    THEN [ret |-> "NODE_NOT_EXIST", st |-> st]
    ELSE IF /\ params # "NULL"
            /\ PluginInfo[st.nodes[app].plugin].module_name = "MQTT"
            /\ neu_parse_param(params) = ""
    THEN [ret |-> "MQTT_SUBSCRIBE_FAILURE", st |-> st]
    ELSE IF neu_adapter_get_type(st, app) # "APP"
    THEN [ret |-> "NODE_NOT_ALLOW_SUBSCRIBE", st |-> st]
    ELSE manager_subscribe(st, app, driver, grp, garbage)

\* neu_manager_send_subscribe; fault names the allocation that fails
\* ("strdup", "msg_app", "msg_driver"), app_n and driver_n are what sendto
\* returns. heap follows the three allocations: the copy of params and the
\* two messages.
neu_manager_send_subscribe(st, app, driver, grp, params, fault, app_n, driver_n) ==
    LET none == [params |-> "none", app_msg |-> "none", driver_msg |-> "none"]
        h0 == [none EXCEPT !.params = IF params # "NULL" THEN "manager" ELSE @]
    IN IF params # "NULL" /\ fault = "strdup"
       THEN [ret |-> "EINTERNAL", st |-> st, heap |-> none]
       ELSE IF fault = "msg_app"
       THEN [ret |-> "EINTERNAL", st |-> st,
             heap |-> [h0 EXCEPT !.params = Freed(@)]]
       ELSE LET a == neu_send_msg_to(st,
                         [type |-> "SUBSCRIBE_GROUP", sender |-> "manager",
                          receiver |-> app, app |-> app, driver |-> driver,
                          group |-> grp, params |-> params], app_n)
                h1 == [h0 EXCEPT !.app_msg = Handed("manager", app_n),
                                 !.params = Handed(@, app_n)]
                h2 == IF 0 # a.ret
                      THEN [h1 EXCEPT !.params = Freed(@), !.app_msg = Freed(@)]
                      ELSE h1
            IN IF fault = "msg_driver"
               THEN [ret |-> "EINTERNAL", st |-> a.st, heap |-> h2]
               ELSE LET d == neu_send_msg_to(a.st,
                                 [type |-> "SUBSCRIBE_GROUP", sender |-> "manager",
                                  receiver |-> driver, app |-> app,
                                  driver |-> driver, group |-> grp,
                                  params |-> "NULL"], driver_n)
                        h3 == [h2 EXCEPT !.driver_msg = Handed("manager", driver_n)]
                        h4 == IF 0 # d.ret
                              THEN [h3 EXCEPT !.driver_msg = Freed(@)]
                              ELSE h3
                    IN [ret |-> "SUCCESS", st |-> d.st, heap |-> h4]

\* neu_manager_unsubscribe
neu_manager_unsubscribe(st, app, driver, grp) ==
    neu_subscribe_manager_unsub(st, driver, app, grp)

\* del_node, APP branch: one UNSUBSCRIBE_GROUP per subscription of the app
RECURSIVE send_unsubscribe(_, _)
send_unsubscribe(st, subscriptions) ==
    IF subscriptions = <<>> THEN st
    ELSE LET sub == Head(subscriptions) IN
         send_unsubscribe(
             forward_msg(st, [type |-> "UNSUBSCRIBE_GROUP", sender |-> "manager",
                              receiver |-> sub.driver, app |-> sub.app,
                              driver |-> sub.driver, group |-> sub.group]),
             Tail(subscriptions))

\* del_node's DRIVER branch as it would be if the loop left after the first app
send_node_deleted_first(st, node, apps) ==
    IF apps = <<>> THEN st
    ELSE forward_msg(st, [type |-> "NODE_DELETED", sender |-> "manager",
                          receiver |-> Head(apps), app |-> "",
                          driver |-> node, group |-> 0])

\* del_node, DRIVER branch: one NODE_DELETED per element of the apps array
RECURSIVE send_node_deleted(_, _, _)
send_node_deleted(st, node, apps) ==
    IF apps = <<>> THEN st
    ELSE send_node_deleted(
             forward_msg(st, [type |-> "NODE_DELETED", sender |-> "manager",
                              receiver |-> Head(apps), app |-> "",
                              driver |-> node, group |-> 0]),
             node, Tail(apps))

\* del_node as it would be if the APP branch fetched the subscriptions after
\* neu_subscribe_manager_unsub_all had dropped them
del_node_unsub_first(st, node) ==
    IF ~neu_node_manager_find(st, node)
    THEN [ret |-> "SUCCESS", st |-> st]
    ELSE IF neu_node_manager_is_single(st, node)
    THEN [ret |-> "NODE_NOT_ALLOW_DELETE", st |-> st]
    ELSE LET type == neu_adapter_get_type(st, node)
             st0 == neu_subscribe_manager_unsub_all(st, node)
             st1 == IF type = "APP"
                    THEN send_unsubscribe(st0,
                             utarray(neu_subscribe_manager_get(st0, node)))
                    ELSE st
             st2 == IF type = "DRIVER"
                    THEN send_node_deleted(st1, node,
                             utarray(neu_subscribe_manager_find_by_driver(st1, node)))
                    ELSE st1
             st3 == neu_manager_del_node(st2, node).st
         IN [ret |-> "SUCCESS", st |-> manager_storage_del_node(st3, node)]

\* del_node
del_node(st, node) ==
    IF ~neu_node_manager_find(st, node)
    THEN [ret |-> "SUCCESS", st |-> st]
    ELSE IF neu_node_manager_is_single(st, node)
    THEN [ret |-> "NODE_NOT_ALLOW_DELETE", st |-> st]
    ELSE LET type == neu_adapter_get_type(st, node)
             st1 == IF type = "APP"
                    THEN send_unsubscribe(
                             neu_subscribe_manager_unsub_all(st, node),
                             utarray(neu_subscribe_manager_get(st, node)))
                    ELSE st
             st2 == IF type = "DRIVER"
                    THEN send_node_deleted(st1, node,
                             utarray(neu_subscribe_manager_find_by_driver(st1, node)))
                    ELSE st1
             st3 == neu_manager_del_node(st2, node).st
         IN [ret |-> "SUCCESS", st |-> manager_storage_del_node(st3, node)]

\* neu_adapter_validate_gtags, neu_adapter_try_add_gtags, neu_adapter_add_gtags:
\* each fails when the environment makes it fail, and sets resp.error;
\* the last one commits the groups 1..n_group
neu_adapter_validate_gtags(fault) ==
    IF fault = "validate" THEN "TAG_ATTRIBUTE_NOT_SUPPORT" ELSE "SUCCESS"
neu_adapter_try_add_gtags(fault) ==
    IF fault = "try" THEN "TAG_ADDRESS_FORMAT_INVALID" ELSE "SUCCESS"
neu_adapter_add_gtags(st, node, n_group, fault) ==
    IF fault = "add"
    THEN [ret |-> "GROUP_PARAMETER_INVALID", st |-> st]
    ELSE [ret |-> "SUCCESS", st |-> [st EXCEPT !.nodes[node].groups = 1..n_group]]

\* the adapter calls add_driver makes on the new node, in the order made
Called(st, fn) == [st EXCEPT !.calls = Append(@, fn)]

\* add_driver, the failure branch: the new node is uninitialized and removed
undo_driver(st, node) ==
    Called(neu_manager_del_node(Called(st, "neu_adapter_uninit"), node).st,
           "neu_manager_del_node")

\* add_driver with the commit phase run whatever the two validations said
add_driver_commits_unvalidated(st, driver) ==
    LET d == del_node(st, driver.node) IN
    IF d.ret # "SUCCESS" THEN d
    ELSE LET a == neu_manager_add_node(d.st, driver.node, driver.plugin,
                                       driver.setting, driver.fault) IN
         IF a.ret # "SUCCESS" THEN a
         ELSE LET v == neu_adapter_validate_gtags(driver.fault)
                  t == neu_adapter_try_add_gtags(driver.fault)
                  c == neu_adapter_add_gtags(
                           Called(Called(Called(a.st,
                               "neu_adapter_validate_gtags"),
                               "neu_adapter_try_add_gtags"),
                               "neu_adapter_add_gtags"),
                           driver.node, driver.n_group, driver.fault)
              IN IF c.ret # "SUCCESS"
                 THEN [ret |-> c.ret, st |-> undo_driver(c.st, driver.node)]
                 ELSE [ret |-> IF v # "SUCCESS" THEN v ELSE t, st |-> c.st]

\* add_driver
add_driver(st, driver) ==
    LET d == del_node(st, driver.node) IN
    IF d.ret # "SUCCESS" THEN d
    ELSE LET a == neu_manager_add_node(d.st, driver.node, driver.plugin,
                                       driver.setting, driver.fault) IN
         IF a.ret # "SUCCESS" THEN a
         ELSE LET v == neu_adapter_validate_gtags(driver.fault)
                  sv == Called(a.st, "neu_adapter_validate_gtags")
                  t == neu_adapter_try_add_gtags(driver.fault)
                  stt == Called(sv, "neu_adapter_try_add_gtags")
                  c == neu_adapter_add_gtags(
                           Called(stt, "neu_adapter_add_gtags"),
                           driver.node, driver.n_group, driver.fault)
              IN IF v # "SUCCESS"
                 THEN [ret |-> v, st |-> undo_driver(sv, driver.node)]
                 ELSE IF t # "SUCCESS"
                 THEN [ret |-> t, st |-> undo_driver(stt, driver.node)]
                 ELSE IF c.ret # "SUCCESS"
                 THEN [ret |-> c.ret, st |-> undo_driver(c.st, driver.node)]
                 ELSE c

\* the fast check as it would be if it looked at one element only
fast_check_one(req, i) ==
    IF i > Len(req) THEN "SUCCESS"
    ELSE IF neu_plugin_manager_find(req[i].plugin) # 0
    THEN "LIBRARY_NOT_FOUND"
    ELSE IF PluginInfo[req[i].plugin].single
    THEN "LIBRARY_NOT_ALLOW_CREATE_INSTANCE"
    ELSE IF PluginInfo[req[i].plugin].type # "DRIVER"
    THEN "PLUGIN_TYPE_NOT_SUPPORT"
    ELSE IF req[i].n_group > NEU_GROUP_MAX_PER_NODE
    THEN "GROUP_MAX_GROUPS"
    ELSE "SUCCESS"

\* neu_manager_add_drivers, the fast check over the whole batch
RECURSIVE fast_check(_, _)
fast_check(req, i) ==
    IF i > Len(req) THEN "SUCCESS"
    ELSE IF neu_plugin_manager_find(req[i].plugin) # 0
    THEN "LIBRARY_NOT_FOUND"
    ELSE IF PluginInfo[req[i].plugin].single
    THEN "LIBRARY_NOT_ALLOW_CREATE_INSTANCE"
    ELSE IF PluginInfo[req[i].plugin].type # "DRIVER"
    THEN "PLUGIN_TYPE_NOT_SUPPORT"
    ELSE IF req[i].n_group > NEU_GROUP_MAX_PER_NODE
    THEN "GROUP_MAX_GROUPS"
    ELSE fast_check(req, i + 1)

\* the rollback as it would be if its loop never ran
rollback_skipped(st, req, i, null_uninit) == st

\* neu_manager_add_drivers, the rollback of elements i, i-1, .., 1.
\* neu_adapter_uninit is handed NULL when the node is no longer registered;
\* null_uninit is what that call does: "abort" the process or "ignore"
RECURSIVE rollback(_, _, _, _)
rollback(st, req, i, null_uninit) ==
    IF i = 0 THEN st
    ELSE IF ~neu_node_manager_find(st, req[i].node) /\ null_uninit = "abort"
    THEN [st EXCEPT !.alive = FALSE]
    ELSE rollback(neu_manager_del_node(st, req[i].node).st, req, i - 1, null_uninit)

\* neu_manager_add_drivers, the loop that adds the drivers one by one
RECURSIVE add_drivers_loop(_, _, _, _)
add_drivers_loop(st, req, i, null_uninit) ==
    IF i > Len(req) THEN [ret |-> "SUCCESS", st |-> st]
    ELSE LET r == add_driver(st, req[i]) IN
         IF r.ret # "SUCCESS"
         THEN [ret |-> r.ret, st |-> rollback(r.st, req, i - 1, null_uninit)]
         ELSE add_drivers_loop(r.st, req, i + 1, null_uninit)

\* neu_manager_add_drivers
neu_manager_add_drivers(st, req, null_uninit) ==
    IF fast_check(req, 1) # "SUCCESS"
    THEN [ret |-> fast_check(req, 1), st |-> st]
    ELSE add_drivers_loop(st, req, 1, null_uninit)

(***************************************************************************)
(* Manager actions: one admin call each                                    *)
(***************************************************************************)
Settings == {"NULL", "good", "bad"}
AllNodeNames == NodeNames \cup {"monitor"}

\* the elements a driver batch is made of: node, plugin, number of groups;
\* two acceptable ones and one for each refusal of the fast check
Elements ==
    {[node |-> n, plugin |-> "modbus", n_group |-> NEU_GROUP_MAX_PER_NODE] :
        n \in NodeNames}
    \cup {[node |-> "n2", plugin |-> p, n_group |-> 1] :
             p \in {"nolib", "mqtt", "monitor"}}
    \cup {[node |-> "n2", plugin |-> "modbus",
           n_group |-> NEU_GROUP_MAX_PER_NODE + 1]}
Batches == UNION {[1..n -> Elements] : n \in 1..MaxBatch}
\* batches of one acceptable driver
SingleBatches == {<<e>> : e \in {x \in Elements : x.n_group = NEU_GROUP_MAX_PER_NODE}}
\* the step of one element the environment makes fail
FaultModes == {"open", "setting", "add"}
\* the same, the two validations of the groups and tags included
PhaseFaultModes == FaultModes \cup {"validate", "try"}

\* the manager's tables at the start of a call, nothing sent yet
St == [nodes |-> nodes, subs |-> subs, storage |-> storage, sent |-> <<>>,
       alive |-> alive, calls |-> <<>>]

Commit(st) ==
    /\ nodes' = st.nodes
    /\ subs' = st.subs
    /\ storage' = st.storage
    /\ sent' = st.sent
    /\ alive' = st.alive

\* what m_last keeps of a call: the return code and the argument of the calls
\* under observation, the name alone of the others
Observe(watch, call) ==
    IF call.op \in watch THEN call
    ELSE [op |-> call.op, ret |-> "", arg |-> <<>>]

ManagerInit ==
    /\ nodes = [n \in {"monitor"} |->
                   [plugin |-> "monitor", single |-> TRUE, groups |-> {}]]
    /\ subs = {}
    /\ storage = {}
    /\ sent = <<>>
    /\ alive = TRUE
    /\ m_last = [op |-> "init", ret |-> "", arg |-> <<>>]

\* ADD_NODE: neu_manager_add_node, persisted when it succeeds
AddNode(watch) ==
    /\ alive
    /\ \E name \in NodeNames, plugin \in PluginNames, setting \in Settings,
          fault \in {"none", "open", "create"} :
          \E r \in {neu_manager_add_node(St, name, plugin, setting, fault)} :
          /\ Commit(IF r.ret = "SUCCESS"
                    THEN manager_storage_add_node(r.st, name) ELSE r.st)
          /\ m_last' = Observe(watch, [op |-> "add_node", ret |-> r.ret,
                           arg |-> [node |-> name, plugin |-> plugin,
                                    before |-> [nodes |-> nodes, subs |-> subs,
                                                storage |-> storage]]])
    /\ UNCHANGED <<gvars, evars, nvars>>

\* what a deletion call is remembered by: the node, its type before the call
\* ("" when it was not registered), the subscriptions the call dropped, and
\* whether the call before it was the add_node that registered the node
Deleted(name, st) ==
    [node |-> name,
     type |-> IF name \in DOMAIN nodes THEN PluginInfo[nodes[name].plugin].type
              ELSE "",
     dropped |-> Cardinality(subs \ st.subs),
     undoes |-> /\ m_last.op = "add_node" /\ m_last.ret = "SUCCESS"
                /\ m_last.arg.node = name]

\* DEL_NODE: the del_node flow
DelNode(watch) ==
    /\ alive
    /\ \E name \in AllNodeNames :
          \E r \in {del_node(St, name)} :
          /\ Commit(r.st)
          /\ m_last' = Observe(watch, [op |-> "del_node", ret |-> r.ret,
                                       arg |-> Deleted(name, r.st)])
    /\ UNCHANGED <<gvars, evars, nvars>>

\* neu_manager_del_node called on its own
NeuManagerDelNode(watch) ==
    /\ alive
    /\ \E name \in AllNodeNames :
          \E r \in {neu_manager_del_node(St, name)} :
          /\ Commit(r.st)
          /\ m_last' = Observe(watch, [op |-> "neu_manager_del_node", ret |-> r.ret,
                                       arg |-> Deleted(name, r.st)])
    /\ UNCHANGED <<gvars, evars, nvars>>

\* what the memory read through the wrong cast may answer; it is read only
\* when the node named as driver is registered and is not a driver
Garbage(driver) ==
    IF driver \in DOMAIN nodes /\ PluginInfo[nodes[driver].plugin].type # "DRIVER"
    THEN {"SUCCESS", "GROUP_NOT_EXIST"}
    ELSE {"GROUP_NOT_EXIST"}

\* SUBSCRIBE_GROUP: neu_manager_subscribe
Subscribe(watch) ==
    /\ alive
    /\ \E app \in AllNodeNames, driver \in NodeNames, grp \in GroupNames,
          params \in Params :
       \E garbage \in Garbage(driver) :
          \E r \in {neu_manager_subscribe(St, app, driver, grp, params, garbage)} :
          /\ Cardinality(subs) < MaxSubs \/ r.ret # "SUCCESS"
          /\ Commit(r.st)
          /\ m_last' = Observe(watch, [op |-> "subscribe", ret |-> r.ret,
                           arg |-> [app |-> app, driver |-> driver, group |-> grp,
                                    params |-> params]])
    /\ UNCHANGED <<gvars, evars, nvars>>

\* UNSUBSCRIBE_GROUP: neu_manager_unsubscribe
Unsubscribe(watch) ==
    /\ alive
    /\ \E app \in AllNodeNames, driver \in NodeNames, grp \in GroupNames :
          \E r \in {neu_manager_unsubscribe(St, app, driver, grp)} :
          /\ Commit(r.st)
          /\ m_last' = Observe(watch, [op |-> "unsubscribe", ret |-> r.ret,
                           arg |-> [app |-> app, driver |-> driver, group |-> grp]])
    /\ UNCHANGED <<gvars, evars, nvars>>

\* neu_manager_send_subscribe, called for a subscription that is recorded
SendSubscribe(watch) ==
    /\ alive
    /\ \E x \in subs, params \in Params,
          fault \in {"none", "strdup", "msg_app", "msg_driver"},
          app_n \in SysResults, driver_n \in SysResults :
       \E r \in {neu_manager_send_subscribe(St, x.app, x.driver, x.group, params,
                                            fault, app_n, driver_n)} :
          /\ Commit(r.st)
          /\ m_last' = Observe(watch, [op |-> "send_subscribe", ret |-> r.ret,
                           arg |-> [app |-> x.app, driver |-> x.driver,
                                    group |-> x.group, params |-> params,
                                    heap |-> r.heap]])
    /\ UNCHANGED <<gvars, evars, nvars>>

\* UPDATE_NODE: neu_manager_update_node_name, persisted when it succeeds
UpdateNodeName(watch) ==
    /\ alive
    /\ \E node \in NodeNames, new_name \in NodeNames :
       \E r \in {neu_manager_update_node_name(St, node, new_name)} :
          /\ Commit(IF r.ret = "SUCCESS"
                    THEN manager_storage_update_node_name(r.st, node, new_name)
                    ELSE r.st)
          /\ m_last' = Observe(watch, [op |-> "update_node_name", ret |-> r.ret,
                           arg |-> [node |-> node, new_name |-> new_name]])
    /\ UNCHANGED <<gvars, evars, nvars>>

RECURSIVE persist_nodes(_, _, _)
persist_nodes(st, req, i) ==
    IF i > Len(req) THEN st
    ELSE persist_nodes(manager_storage_add_node(st, req[i].node), req, i + 1)

\* the faults the environment may inject into a batch: none, or one step of
\* one element; a batch the fast check refuses never gets that far
FaultChoices(watch, base) ==
    IF fast_check(base, 1) # "SUCCESS"
    THEN {[at |-> 0, mode |-> "none"]}
    ELSE {[at |-> 0, mode |-> "none"]}
         \cup {[at |-> i, mode |-> m] :
                  i \in 1..Len(base),
                  m \in IF "add_driver" \in watch
                        THEN PhaseFaultModes ELSE FaultModes}

\* what neu_adapter_uninit(NULL) may do; the rollback reaches it only when an
\* element before the failing one carries the name of a later one
NullUninit(base, at) ==
    IF \E i, j \in 1..at : i < j /\ base[i].node = base[j].node
    THEN {"abort", "ignore"}
    ELSE {"ignore"}

\* the first element of the batch that names no loaded plugin, a singleton
\* plugin, a plugin that is no driver, or too many groups; <<>> if none
Offending(e) ==
    \/ e.plugin \notin DOMAIN PluginInfo
    \/ PluginInfo[e.plugin].single
    \/ PluginInfo[e.plugin].type # "DRIVER"
    \/ e.n_group > NEU_GROUP_MAX_PER_NODE
FirstOffending(req) ==
    IF \A i \in 1..Len(req) : ~Offending(req[i]) THEN <<>>
    ELSE LET i == CHOOSE k \in 1..Len(req) :
                     Offending(req[k]) /\ \A j \in 1..(k - 1) : ~Offending(req[j])
         IN <<[plugin |-> req[i].plugin, n_group |-> req[i].n_group]>>

\* ADD_DRIVERS: neu_manager_add_drivers, the nodes persisted when it succeeds
AddDrivers(watch, batches) ==
    /\ alive
    /\ \E base \in batches :
       \E f \in FaultChoices(watch, base) :
       \E null_uninit \in NullUninit(base, f.at) :
          LET req == [i \in 1..Len(base) |->
                         [node |-> base[i].node, plugin |-> base[i].plugin,
                          n_group |-> base[i].n_group,
                          setting |-> IF i = f.at /\ f.mode = "setting"
                                      THEN "bad" ELSE "good",
                          fault |-> IF i = f.at /\ f.mode # "setting"
                                    THEN f.mode ELSE "none"]]
          IN \E r \in {neu_manager_add_drivers(St, req, null_uninit)} :
             /\ Commit(IF r.ret = "SUCCESS"
                       THEN persist_nodes(r.st, req, 1) ELSE r.st)
             /\ m_last' = Observe(watch,
                    [op |-> "add_drivers",
                     ret |-> IF r.st.alive THEN r.ret ELSE "(no return)",
                     arg |-> IF "add_driver" \in watch
                             THEN [names |-> {base[i].node : i \in 1..Len(base)},
                                   fault |-> f.mode, calls |-> r.st.calls]
                             ELSE [names |-> {base[i].node : i \in 1..Len(base)},
                                   bad |-> FirstOffending(base)]])
    /\ UNCHANGED <<gvars, evars, nvars>>

\* the calls each specification keeps under observation
BatchWatch == {"add_drivers"}
DriverWatch == {"add_drivers", "add_driver"}
DeleteWatch == {"del_node", "neu_manager_del_node"}

\* driver batches over a manager that also adds nodes and subscribes
BatchNext ==
    \/ AddNode(BatchWatch)
    \/ Subscribe(BatchWatch)
    \/ AddDrivers(BatchWatch, Batches)

\* every admin call, the batches being single drivers
ManagerNext ==
    \/ AddNode(DeleteWatch)
    \/ DelNode(DeleteWatch)
    \/ NeuManagerDelNode(DeleteWatch)
    \/ Subscribe(DeleteWatch)
    \/ Unsubscribe(DeleteWatch)
    \/ AddDrivers(DeleteWatch, SingleBatches)

\* subscriptions over a manager that adds nodes and single drivers
SubscribeWatch == {"subscribe"}
SubscribeNext ==
    \/ AddNode(SubscribeWatch)
    \/ AddDrivers(SubscribeWatch, SingleBatches)
    \/ Subscribe(SubscribeWatch)
    \/ Unsubscribe(SubscribeWatch)

\* adding nodes over a manager that deletes, adds single drivers and subscribes
NodeWatch == {"add_node"}
NodeNext ==
    \/ AddNode(NodeWatch)
    \/ DelNode(NodeWatch)
    \/ NeuManagerDelNode(NodeWatch)
    \/ AddDrivers(NodeWatch, SingleBatches)
    \/ Subscribe(NodeWatch)

\* the admin flows that add and delete nodes, add single drivers, subscribe
\* and unsubscribe
RoundTripWatch == {"add_node", "del_node"}
RoundTripNext ==
    \/ AddNode(RoundTripWatch)
    \/ DelNode(RoundTripWatch)
    \/ AddDrivers(RoundTripWatch, SingleBatches)
    \/ Subscribe(RoundTripWatch)
    \/ Unsubscribe(RoundTripWatch)

\* renaming nodes over a manager that adds nodes and single drivers and
\* subscribes
RenameWatch == {"update_node_name"}
RenameNext ==
    \/ AddNode(RenameWatch)
    \/ AddDrivers(RenameWatch, SingleBatches)
    \/ Subscribe(RenameWatch)
    \/ UpdateNodeName(RenameWatch)

\* the subscribe flow: the subscription is recorded, then both ends are told
SendWatch == {"send_subscribe"}
SendNext ==
    \/ AddNode(SendWatch)
    \/ AddDrivers(SendWatch, SingleBatches)
    \/ Subscribe(SendWatch)
    \/ SendSubscribe(SendWatch)

\* one driver at a time, any of its steps failing, next to nodes and
\* subscriptions made by other calls
DriverNext ==
    \/ AddNode(DriverWatch)
    \/ Subscribe(DriverWatch)
    \/ AddDrivers(DriverWatch, SingleBatches)

(***************************************************************************)
(* event_linux.c                                                           *)
(***************************************************************************)

\* the table has EVENT_SIZE entries, of which the first MaxSlots are modelled
TableSize == IF MaxSlots < EVENT_SIZE THEN MaxSlots ELSE EVENT_SIZE
Slots == 1..TableSize
\* it_value = it_interval of the timers that are added, in timer units
TimerIntervals == {1, 2}
TimerTypes == {"BLOCK", "NONBLOCK"}

\* struct event_data with its timer context; expire and ready are the state
\* of the timerfd (or the readability of an io fd), in_epoll its registration;
\* armed, starts and ended record when a BLOCK timer was added, when its
\* callback was entered and when it last returned; refs counts the handles
\* that add_* returned for the entry and that no del_* was called on yet
FreeEntry ==
    [use |-> FALSE, type |-> "NONE", ttype |-> "NONE", value |-> 0,
     stop |-> FALSE, in_epoll |-> FALSE, expire |-> 0, ready |-> FALSE,
     armed |-> 0, starts |-> {}, ended |-> -1, refs |-> 0]

\* get_free_event: the first unused index, 0 standing for the code's -1
get_free_event(datas) ==
    IF \E i \in Slots : ~datas[i].use
    THEN CHOOSE i \in Slots : ~datas[i].use /\ \A j \in 1..(i - 1) : datas[j].use
    ELSE 0

\* free_event; what the entry held is dead until add_* writes it again
free_event(datas, index) ==
    [datas EXCEPT ![index] = [FreeEntry EXCEPT !.refs = datas[index].refs]]

\* the entry neu_event_add_timer writes: armed, periodic, registered
timer_entry(clock, value, type) ==
    [FreeEntry EXCEPT !.use = TRUE, !.type = "TIMER", !.ttype = type,
                      !.value = value, !.expire = clock + value,
                      !.in_epoll = TRUE,
                      !.armed = IF type = "BLOCK" THEN clock ELSE 0]

\* neu_event_add_timer. With no free entry index is -1: assert(index >= 0)
\* aborts, and a build without assertions writes through event_datas[-1];
\* outcome is the one of the two that the build produces.
neu_event_add_timer(datas, clock, value, type, outcome) ==
    LET index == get_free_event(datas)
    IN IF index = 0
       THEN [ret |-> outcome, index |-> 0, datas |-> datas, state |-> outcome]
       ELSE [ret |-> "HANDLE", index |-> index, state |-> "running",
             datas |-> [datas EXCEPT ![index] =
                          [timer_entry(clock, value, type)
                              EXCEPT !.refs = datas[index].refs + 1]]]

\* neu_event_add_io, with the same assertion on the index
neu_event_add_io(datas, outcome) ==
    LET index == get_free_event(datas)
    IN IF index = 0
       THEN [ret |-> outcome, index |-> 0, datas |-> datas, state |-> outcome]
       ELSE [ret |-> "HANDLE", index |-> index, state |-> "running",
             datas |-> [datas EXCEPT ![index] =
                          [FreeEntry EXCEPT !.use = TRUE, !.type = "IO",
                                            !.in_epoll = TRUE,
                                            !.refs = datas[index].refs + 1]]]

\* neu_event_del_io
neu_event_del_io(datas, index) ==
    free_event([datas EXCEPT ![index].refs = @ - 1], index)

\* neu_event_del_timer up to pthread_mutex_lock: stop, EPOLL_CTL_DEL
del_timer_stop(datas, index) ==
    [datas EXCEPT ![index].stop = TRUE, ![index].in_epoll = FALSE,
                  ![index].refs = @ - 1]

\* neu_event_del_timer once it holds the timer's mutex: close, free_event
del_timer_close(datas, index) == free_event(datas, index)

\* the descriptors epoll_wait may report
epoll_ready(datas) == {i \in Slots : datas[i].in_epoll /\ datas[i].ready}

\* a variant that calls the callback of a BLOCK timer without EPOLL_CTL_DEL
timer_fired_stays_registered(datas, index, clock) ==
    IF datas[index].stop
    THEN [datas EXCEPT ![index].ready = FALSE]
    ELSE IF datas[index].ttype = "BLOCK"
    THEN [datas EXCEPT ![index].ready = FALSE,
                       ![index].starts = @ \cup {clock}]
    ELSE [datas EXCEPT ![index].ready = FALSE]

\* event_loop, case TIMER, up to the call of the callback: read() clears the
\* expirations; a BLOCK timer leaves the epoll set
timer_fired(datas, index, clock) ==
    IF datas[index].stop
    THEN [datas EXCEPT ![index].ready = FALSE]
    ELSE IF datas[index].ttype = "BLOCK"
    THEN [datas EXCEPT ![index].ready = FALSE,
                       ![index].starts = @ \cup {clock},
                       ![index].in_epoll = FALSE]
    ELSE [datas EXCEPT ![index].ready = FALSE]

\* a variant that returns the BLOCK timer to the epoll set without
\* timerfd_settime, leaving the expirations of the running period in place
timer_returned_not_rearmed(datas, index, clock) ==
    IF datas[index].ttype = "BLOCK"
    THEN [datas EXCEPT ![index].ended = clock, ![index].in_epoll = TRUE]
    ELSE datas

\* event_loop, case TIMER, after the callback returned: a BLOCK timer is set
\* again to its full value and added back to the epoll set
timer_returned(datas, index, clock) ==
    IF datas[index].ttype = "BLOCK"
    THEN [datas EXCEPT ![index].ended = clock,
                       ![index].expire = clock + datas[index].value,
                       ![index].ready = FALSE,
                       ![index].in_epoll = TRUE]
    ELSE datas

\* one unit of time: every open periodic timerfd whose expiry is reached
\* becomes readable and moves its expiry on by it_interval
timerfd_tick(datas, clock) ==
    [i \in Slots |->
        IF datas[i].type = "TIMER" /\ datas[i].expire = clock
        THEN [datas[i] EXCEPT !.ready = TRUE, !.expire = clock + datas[i].value]
        ELSE datas[i]]

Idle == [pc |-> "wait", cur |-> 0]

\* what a specification keeps of a call: those it watches, in full
EObserve(watch, call) ==
    IF call.op \in watch THEN call ELSE [op |-> "", ret |-> "", index |-> 0]

Timers(datas) == {i \in Slots : datas[i].use /\ datas[i].type = "TIMER"}

\* what became of the entry whose event the loop holds: free_event ran on it,
\* get_free_event handed it out again
released(lp, index) ==
    IF lp.pc = "fetched" /\ lp.cur = index THEN [lp EXCEPT !.seen = "freed"] ELSE lp
reused(lp, index) ==
    IF lp.pc = "fetched" /\ lp.cur = index
    THEN [lp EXCEPT !.seen = "reassigned"] ELSE lp

EventInit ==
    /\ event_datas = [i \in Slots |-> FreeEntry]
    /\ loop = Idle
    /\ time = 0
    /\ e_state = "running"
    /\ e_last = [op |-> "neu_event_new", ret |-> "HANDLE", index |-> 0]

NeuEventAddTimer(watch) ==
    /\ e_state = "running"
    /\ \/ Cardinality(Timers(event_datas)) < MaxTimers
       \/ get_free_event(event_datas) = 0
    /\ \E value \in TimerIntervals, type \in TimerTypes,
          outcome \in {"aborted", "corrupted"} :
          LET r == neu_event_add_timer(event_datas, time, value, type, outcome)
          IN /\ event_datas' = r.datas
             /\ e_state' = r.state
             /\ e_last' = EObserve(watch,
                    [op |-> "add_timer", ret |-> r.ret, index |-> r.index])
             /\ loop' = reused(loop, r.index)
    /\ UNCHANGED <<time, gvars, mvars, nvars>>

NeuEventAddIo(watch) ==
    /\ e_state = "running"
    /\ \E outcome \in {"aborted", "corrupted"} :
          LET r == neu_event_add_io(event_datas, outcome)
          IN /\ event_datas' = r.datas
             /\ e_state' = r.state
             /\ e_last' = EObserve(watch,
                    [op |-> "add_io", ret |-> r.ret, index |-> r.index])
             /\ loop' = reused(loop, r.index)
    /\ UNCHANGED <<time, gvars, mvars, nvars>>

NeuEventDelIo(watch) ==
    /\ e_state = "running"
    /\ \E i \in Slots :
          /\ event_datas[i].use /\ event_datas[i].type = "IO"
          /\ event_datas' = neu_event_del_io(event_datas, i)
          /\ e_last' = EObserve(watch,
                    [op |-> "del_io", ret |-> "0", index |-> i])
          /\ loop' = released(loop, i)
    /\ UNCHANGED <<time, e_state, gvars, mvars, nvars>>

\* neu_event_del_timer called from another thread than the loop's
DelTimerStop(watch) ==
    /\ e_state = "running"
    /\ \E i \in Slots :
          /\ event_datas[i].use /\ event_datas[i].type = "TIMER"
          /\ ~event_datas[i].stop
          /\ event_datas' = del_timer_stop(event_datas, i)
          /\ e_last' = EObserve(watch,
                    [op |-> "del_timer_stop", ret |-> "", index |-> i])
    /\ UNCHANGED <<loop, time, e_state, gvars, mvars, nvars>>

\* it gets the mutex when the loop is not inside this timer's case
DelTimerClose(watch) ==
    /\ e_state = "running"
    /\ \E i \in Slots :
          /\ event_datas[i].use /\ event_datas[i].type = "TIMER"
          /\ event_datas[i].stop
          /\ ~(loop.pc \in {"callback", "deadlock"} /\ loop.cur = i)
          /\ event_datas' = del_timer_close(event_datas, i)
          /\ e_last' = EObserve(watch,
                    [op |-> "del_timer", ret |-> "0", index |-> i])
          /\ loop' = released(loop, i)
    /\ UNCHANGED <<time, e_state, gvars, mvars, nvars>>

\* an io descriptor becomes readable
IoReadable(watch) ==
    /\ e_state = "running"
    /\ \E i \in Slots :
          /\ event_datas[i].use /\ event_datas[i].type = "IO"
          /\ ~event_datas[i].ready
          /\ event_datas' = [event_datas EXCEPT ![i].ready = TRUE]
          /\ e_last' = EObserve(watch,
                    [op |-> "readable", ret |-> "", index |-> i])
    /\ UNCHANGED <<loop, time, e_state, gvars, mvars, nvars>>

\* event_loop: epoll_wait reports one event; an io callback is run to its
\* end, a timer callback is entered
LoopDispatch(watch) ==
    /\ e_state = "running"
    /\ loop.pc = "wait"
    /\ \E i \in epoll_ready(event_datas) :
          IF event_datas[i].type = "TIMER"
          THEN /\ event_datas' = timer_fired(event_datas, i, time)
               /\ loop' = IF event_datas[i].stop THEN loop
                          ELSE [pc |-> "callback", cur |-> i]
               /\ e_last' = EObserve(watch,
                     [op |-> "timer", index |-> i,
                      ret |-> IF event_datas[i].stop THEN "" ELSE "called"])
          ELSE /\ event_datas' = [event_datas EXCEPT ![i].ready = FALSE]
               /\ loop' = loop
               /\ e_last' = EObserve(watch,
                     [op |-> "io", ret |-> "called", index |-> i])
    /\ UNCHANGED <<time, e_state, gvars, mvars, nvars>>

\* event_loop: epoll_wait returns with one event, whose data.ptr is the entry
LoopFetch(watch) ==
    /\ e_state = "running"
    /\ loop.pc = "wait"
    /\ \E i \in epoll_ready(event_datas) :
          loop' = [pc |-> "fetched", cur |-> i, type |-> event_datas[i].type,
                   seen |-> "live"]
    /\ e_last' = EObserve(watch, [op |-> "epoll_wait", ret |-> "", index |-> 0])
    /\ UNCHANGED <<event_datas, time, e_state, gvars, mvars, nvars>>

\* event_loop: the switch on data->type for the event it holds. The entry is
\* read as it is now: the handle's own if it lives; after free_event what the
\* handle left (a destroyed mutex, stop set, the io callback); after
\* get_free_event the entry of the handle that took it. read() on the new
\* timer's descriptor returns once that timer has expired.
LoopHandle(watch) ==
    /\ e_state = "running"
    /\ loop.pc = "fetched"
    /\ LET i == loop.cur
           d == event_datas[i]
       IN \/ /\ loop.seen = "live" /\ d.type = "TIMER"
             /\ event_datas' = timer_fired(event_datas, i, time)
             /\ loop' = IF d.stop THEN Idle ELSE [pc |-> "callback", cur |-> i]
             /\ e_state' = e_state
             /\ e_last' = EObserve(watch,
                   [op |-> "timer", index |-> i,
                    ret |-> IF d.stop THEN "" ELSE "called"])
          \/ /\ loop.seen = "live" /\ d.type = "IO"
             /\ event_datas' = [event_datas EXCEPT ![i].ready = FALSE]
             /\ loop' = Idle
             /\ e_state' = e_state
             /\ e_last' = EObserve(watch,
                   [op |-> "io", ret |-> "called", index |-> i])
          \/ /\ loop.seen = "freed" /\ loop.type = "TIMER"
             /\ \E outcome \in {"running", "corrupted"} : e_state' = outcome
             /\ loop' = Idle
             /\ e_last' = EObserve(watch,
                   [op |-> "timer", ret |-> "destroyed_mutex", index |-> i])
             /\ UNCHANGED event_datas
          \/ /\ loop.seen = "freed" /\ loop.type = "IO"
             /\ loop' = Idle
             /\ e_last' = EObserve(watch,
                   [op |-> "io", ret |-> "called_deleted", index |-> i])
             /\ UNCHANGED <<event_datas, e_state>>
          \/ /\ loop.seen = "reassigned" /\ d.type = "TIMER"
             /\ d.ready
             /\ event_datas' = timer_fired(event_datas, i, time)
             /\ loop' = IF d.stop THEN Idle ELSE [pc |-> "callback", cur |-> i]
             /\ e_state' = e_state
             /\ e_last' = EObserve(watch,
                   [op |-> "timer", index |-> i,
                    ret |-> IF d.stop THEN "" ELSE "called_other"])
          \/ /\ loop.seen = "reassigned" /\ d.type = "IO"
             /\ loop' = Idle
             /\ e_last' = EObserve(watch,
                   [op |-> "io", ret |-> "called_other", index |-> i])
             /\ UNCHANGED <<event_datas, e_state>>
    /\ UNCHANGED <<time, gvars, mvars, nvars>>

\* event_loop: the timer callback returns
LoopReturn(watch) ==
    /\ e_state = "running"
    /\ loop.pc = "callback"
    /\ event_datas' = timer_returned(event_datas, loop.cur, time)
    /\ loop' = Idle
    /\ e_last' = EObserve(watch,
                    [op |-> "timer", ret |-> "returned", index |-> loop.cur])
    /\ UNCHANGED <<time, e_state, gvars, mvars, nvars>>

\* time passes while the loop is busy or epoll_wait has nothing to report
Tick(watch) ==
    /\ e_state = "running"
    /\ time < MaxNow
    /\ loop.pc # "wait" \/ epoll_ready(event_datas) = {}
    /\ time' = time + 1
    /\ event_datas' = timerfd_tick(event_datas, time + 1)
    /\ e_last' = EObserve(watch, [op |-> "tick", ret |-> "", index |-> 0])
    /\ UNCHANGED <<loop, e_state, gvars, mvars, nvars>>

\* the table under timers and io descriptors that come and go
EventWatch == {"add_timer", "add_io"}
EventNext ==
    \/ NeuEventAddTimer(EventWatch)
    \/ NeuEventAddIo(EventWatch)
    \/ NeuEventDelIo(EventWatch)
    \/ DelTimerStop(EventWatch)
    \/ DelTimerClose(EventWatch)
    \/ IoReadable(EventWatch)
    \/ LoopDispatch(EventWatch)
    \/ LoopReturn(EventWatch)
    \/ Tick(EventWatch)

\* the timers of the loop, their callbacks taking any time
TimerWatch == {}
TimerNext ==
    \/ NeuEventAddTimer(TimerWatch)
    \/ DelTimerStop(TimerWatch)
    \/ DelTimerClose(TimerWatch)
    \/ LoopDispatch(TimerWatch)
    \/ LoopReturn(TimerWatch)
    \/ Tick(TimerWatch)

\* what pthread_mutex_lock does on a default mutex its caller already holds:
\* the caller waits for itself for ever, or the lock is granted again
Relock == {"deadlock", "relocked"}

\* neu_event_del_timer called by the timer's own callback, that is by the
\* loop thread while it holds the timer's mutex: stop, EPOLL_CTL_DEL, then
\* pthread_mutex_lock. Granted the lock again, the call closes the timer
\* and frees the entry, the callback returns and the loop unlocks the mutex
\* that was destroyed.
DelTimerInCallback(watch) ==
    /\ e_state = "running"
    /\ loop.pc = "callback"
    /\ ~event_datas[loop.cur].stop
    /\ \E outcome \in Relock :
          IF outcome = "deadlock"
          THEN /\ event_datas' = del_timer_stop(event_datas, loop.cur)
               /\ loop' = [pc |-> "deadlock", cur |-> loop.cur]
               /\ e_state' = e_state
               /\ e_last' = EObserve(watch,
                     [op |-> "del_timer", ret |-> "(no return)",
                      index |-> loop.cur])
          ELSE /\ event_datas' =
                     del_timer_close(del_timer_stop(event_datas, loop.cur),
                                     loop.cur)
               /\ loop' = Idle
               /\ \E after \in {"running", "corrupted"} : e_state' = after
               /\ e_last' = EObserve(watch,
                     [op |-> "del_timer", ret |-> "0", index |-> loop.cur])
    /\ UNCHANGED <<time, gvars, mvars, nvars>>

\* timers deleted from another thread and from their own callbacks
DelWatch == {"del_timer"}
DelNext ==
    \/ NeuEventAddTimer(DelWatch)
    \/ DelTimerStop(DelWatch)
    \/ DelTimerClose(DelWatch)
    \/ DelTimerInCallback(DelWatch)
    \/ LoopDispatch(DelWatch)
    \/ LoopReturn(DelWatch)
    \/ Tick(DelWatch)

\* a join that does not wait for the thread
joined_without_waiting(lp) == TRUE
\* pthread_join(events->thread): it returns once event_loop has returned
joined(lp) == lp.pc = "exited"

\* what the loop reads in events->stop, which neu_event_close writes with
\* no synchronisation: the value written, or the one before it
StopRead == {TRUE, FALSE}

\* neu_event_close up to pthread_join: stop is set and the epoll descriptor
\* closed, whatever the loop is doing
NeuEventClose(watch) ==
    /\ e_state = "running"
    /\ e_state' = "closing"
    /\ e_last' = EObserve(watch, [op |-> "close", ret |-> "", index |-> 0])
    /\ UNCHANGED <<event_datas, loop, time, gvars, mvars, nvars>>

\* event_loop after the close, the epoll_wait that may have begun before it.
\* Begun after it, the call fails with EBADF and the loop breaks. Begun
\* before it, the call runs on: it times out or is interrupted and the loop
\* continues, or it reports an event; then events->stop is read, and the
\* loop breaks if stop is seen and runs the case of the entry if not.
LoopWaitClosing(watch) ==
    /\ e_state \in {"closing", "closed"}
    /\ loop.pc = "wait"
    /\ \/ /\ loop' = [pc |-> "exited", cur |-> 0]
          /\ e_last' = EObserve(watch,
                [op |-> "epoll_wait", ret |-> "EBADF", index |-> 0])
          /\ UNCHANGED event_datas
       \/ /\ loop' = [pc |-> "rewait", cur |-> 0]
          /\ e_last' = EObserve(watch,
                [op |-> "epoll_wait", ret |-> "0", index |-> 0])
          /\ UNCHANGED event_datas
       \/ \E i \in epoll_ready(event_datas), stop \in StopRead :
             IF stop
             THEN /\ loop' = [pc |-> "exited", cur |-> 0]
                  /\ e_last' = EObserve(watch,
                        [op |-> "epoll_wait", ret |-> "stop", index |-> i])
                  /\ UNCHANGED event_datas
             ELSE IF event_datas[i].type = "TIMER"
             THEN /\ event_datas' = timer_fired(event_datas, i, time)
                  /\ loop' = IF event_datas[i].stop
                             THEN [pc |-> "rewait", cur |-> 0]
                             ELSE [pc |-> "callback", cur |-> i]
                  /\ e_last' = EObserve(watch,
                        [op |-> "late_timer", index |-> i,
                         ret |-> IF event_datas[i].stop THEN "" ELSE "called"])
             ELSE /\ event_datas' = [event_datas EXCEPT ![i].ready = FALSE]
                  /\ loop' = [pc |-> "rewait", cur |-> 0]
                  /\ e_last' = EObserve(watch,
                        [op |-> "late_io", ret |-> "called", index |-> i])
    /\ UNCHANGED <<time, e_state, gvars, mvars, nvars>>

\* event_loop after the close, an epoll_wait begun after it: EBADF, ret is
\* -1 and errno is not EINTR, the loop breaks
LoopRewait(watch) ==
    /\ e_state \in {"closing", "closed"}
    /\ loop.pc = "rewait"
    /\ loop' = [pc |-> "exited", cur |-> 0]
    /\ e_last' = EObserve(watch,
                    [op |-> "epoll_wait", ret |-> "EBADF", index |-> 0])
    /\ UNCHANGED <<event_datas, time, e_state, gvars, mvars, nvars>>

\* event_loop after the close: the timer callback that was running returns
LoopReturnClosing(watch) ==
    /\ e_state \in {"closing", "closed"}
    /\ loop.pc = "callback"
    /\ event_datas' = timer_returned(event_datas, loop.cur, time)
    /\ loop' = [pc |-> "rewait", cur |-> 0]
    /\ e_last' = EObserve(watch,
                    [op |-> "late_timer", ret |-> "returned", index |-> loop.cur])
    /\ UNCHANGED <<time, e_state, gvars, mvars, nvars>>

\* neu_event_close from pthread_join on: the mutex is destroyed, events is
\* freed, the call returns
NeuEventCloseJoin(watch) ==
    /\ e_state = "closing"
    /\ joined(loop)
    /\ e_state' = "closed"
    /\ e_last' = EObserve(watch, [op |-> "close", ret |-> "0", index |-> 0])
    /\ UNCHANGED <<event_datas, loop, time, gvars, mvars, nvars>>

\* a loop with timers that is closed at any moment
CloseWatch == {"close", "late_timer", "late_io"}
CloseNext ==
    \/ NeuEventAddTimer(CloseWatch)
    \/ LoopDispatch(CloseWatch)
    \/ LoopReturn(CloseWatch)
    \/ Tick(CloseWatch)
    \/ NeuEventClose(CloseWatch)
    \/ LoopWaitClosing(CloseWatch)
    \/ LoopRewait(CloseWatch)
    \/ LoopReturnClosing(CloseWatch)
    \/ NeuEventCloseJoin(CloseWatch)

(***************************************************************************)
(* msg_internal.h                                                          *)
(***************************************************************************)

\* the messages whose pointers travel
Msgs == {"m1", "m2"}

\* the value neu_recv_msg and neu_recv_msg_from return for the system call's n
recv_result(n) == IF PtrSize # n THEN (IF 0 = n THEN -1 ELSE n) ELSE 0

\* neu_send_msg; send returned n, and the socket holds the pointer if the
\* whole of it went out
neu_send_msg(q, msg, n) ==
    [ret |-> send_result(n), bus |-> IF n = PtrSize THEN Append(q, msg) ELSE q]

\* neu_recv_msg; recv returned n, a whole pointer being the oldest one held
neu_recv_msg(q, p, n) ==
    IF PtrSize # n
    THEN [ret |-> recv_result(n), bus |-> q, msg_p |-> p]
    ELSE [ret |-> 0, bus |-> Tail(q), msg_p |-> Head(q)]

\* neu_recv_msg_from; the source address is not followed
neu_recv_msg_from(q, p, n) ==
    IF PtrSize # n
    THEN [ret |-> recv_result(n), bus |-> q, msg_p |-> p]
    ELSE [ret |-> 0, bus |-> Tail(q), msg_p |-> Head(q)]

BusInit ==
    /\ bus = <<>>
    /\ msg_p = "NULL"
    /\ b_last = [op |-> "", n |-> 0, msg |-> "NULL", ret |-> 0]

\* a whole pointer goes out only while the socket has room
NeuSendMsg ==
    /\ \E msg \in Msgs, n \in SysResults :
          /\ n = PtrSize => Len(bus) < MaxQueue
          /\ LET r == neu_send_msg(bus, msg, n)
             IN /\ bus' = r.bus
                /\ b_last' = [op |-> "send", n |-> n, msg |-> msg, ret |-> r.ret]
    /\ UNCHANGED <<msg_p, BusRest>>

NeuSendMsgTo ==
    /\ \E msg \in Msgs, n \in SysResults :
          /\ n = PtrSize => Len(bus) < MaxQueue
          /\ LET r == neu_send_msg_to([sent |-> bus], msg, n)
             IN /\ bus' = r.st.sent
                /\ b_last' = [op |-> "send_to", n |-> n, msg |-> msg, ret |-> r.ret]
    /\ UNCHANGED <<msg_p, BusRest>>

\* a whole pointer comes in only if the socket holds one
NeuRecvMsg ==
    /\ \E n \in SysResults :
          /\ n = PtrSize => bus # <<>>
          /\ LET r == neu_recv_msg(bus, msg_p, n)
             IN /\ bus' = r.bus
                /\ msg_p' = r.msg_p
                /\ b_last' = [op |-> "recv", n |-> n, msg |-> r.msg_p, ret |-> r.ret]
    /\ UNCHANGED BusRest

NeuRecvMsgFrom ==
    /\ \E n \in SysResults :
          /\ n = PtrSize => bus # <<>>
          /\ LET r == neu_recv_msg_from(bus, msg_p, n)
             IN /\ bus' = r.bus
                /\ msg_p' = r.msg_p
                /\ b_last' = [op |-> "recv_from", n |-> n, msg |-> r.msg_p,
                              ret |-> r.ret]
    /\ UNCHANGED BusRest

BusNext ==
    \/ NeuSendMsg
    \/ NeuSendMsgTo
    \/ NeuRecvMsg
    \/ NeuRecvMsgFrom

(***************************************************************************)
(* mqtt_handle.c                                                           *)
(***************************************************************************)

\* the drivers and groups TRANS_DATA may name, the lengths of the payloads
RouteDrivers == {"d1"}
\* the drivers an app with several subscriptions hears of
ManyDrivers == {"d1", "d2"}
\* the app the subscriptions are made for
RouteApps == {"a1"}
RouteGroups == {"g1", "g2"}
PayloadLens == {1, 2}

NoMetrics ==
    [SEND_MSGS_TOTAL |-> 0, SEND_BYTES_5S |-> 0, SEND_BYTES_30S |-> 0,
     SEND_BYTES_60S |-> 0, SEND_MSG_ERRORS_TOTAL |-> 0]

\* NEU_PLUGIN_UPDATE_METRIC: the adapter's update_metric adds val
update_metric(m, name, val) == [m EXCEPT ![name] = @ + val]

\* route_tbl_get: whether (driver, group) has an entry
route_tbl_get(tbl, driver, grp) ==
    \E e \in tbl : e.driver = driver /\ e.group = grp

\* route_tbl_add_new: a second entry for (driver, group) is refused
route_tbl_add_new(tbl, driver, grp, topic) ==
    IF route_tbl_get(tbl, driver, grp)
    THEN [ret |-> "GROUP_ALREADY_SUBSCRIBED", tbl |-> tbl]
    ELSE [ret |-> "SUCCESS",
          tbl |-> tbl \cup {[driver |-> driver, group |-> grp, topic |-> topic]}]

\* route_tbl_del
route_tbl_del(tbl, driver, grp) ==
    {e \in tbl : ~(e.driver = driver /\ e.group = grp)}

\* route_tbl_del_driver: every entry of the driver goes
route_tbl_del_driver(tbl, driver) == {e \in tbl : e.driver # driver}

\* default_upload_topic; NULL when neu_asprintf has no memory
default_upload_topic(app, driver, grp, fault) ==
    IF fault = "asprintf" THEN "NULL"
    ELSE "/neuron/" \o app \o "/" \o driver \o "/" \o grp

\* a variant that counts a publish as sent whatever errcode says
publish_cb_ignores_errcode(m, errcode, len) ==
    [metrics |-> update_metric(update_metric(update_metric(update_metric(m,
                     "SEND_MSGS_TOTAL", 1), "SEND_BYTES_5S", len),
                     "SEND_BYTES_30S", len), "SEND_BYTES_60S", len),
     frees |-> 1]

\* publish_cb: the completion of a publish the client accepted
publish_cb(m, errcode, len) ==
    IF 0 = errcode
    THEN [metrics |-> update_metric(update_metric(update_metric(update_metric(m,
                          "SEND_MSGS_TOTAL", 1), "SEND_BYTES_5S", len),
                          "SEND_BYTES_30S", len), "SEND_BYTES_60S", len),
          frees |-> 1]
    ELSE [metrics |-> update_metric(m, "SEND_MSG_ERRORS_TOTAL", 1), frees |-> 1]

\* publish; rv is what neu_mqtt_client_publish returns, which calls publish_cb
\* later and once if it returns 0, and never otherwise
publish(m, rv, len) ==
    IF 0 # rv
    THEN [ret |-> "MQTT_PUBLISH_FAILURE", frees |-> 1, accepted |-> FALSE,
          metrics |-> update_metric(m, "SEND_MSG_ERRORS_TOTAL", 1)]
    ELSE [ret |-> "SUCCESS", frees |-> 0, accepted |-> TRUE, metrics |-> m]

\* handle_trans_data; client tells whether plugin->client is NULL, whether a
\* client without cache is disconnected, or neither; json whether
\* generate_upload_json gave a string. attempted: publish was called.
handle_trans_data(tbl, m, driver, grp, client, json, rv, len) ==
    LET none == [ret |-> "", attempted |-> FALSE, frees |-> 0,
                 accepted |-> FALSE, metrics |-> m]
    IN IF client = "NULL" THEN [none EXCEPT !.ret = "MQTT_IS_NULL"]
       ELSE IF client = "disconnected" THEN [none EXCEPT !.ret = "MQTT_FAILURE"]
       ELSE IF ~route_tbl_get(tbl, driver, grp)
       THEN [none EXCEPT !.ret = "GROUP_NOT_SUBSCRIBE"]
       ELSE IF ~json THEN [none EXCEPT !.ret = "EINTERNAL"]
       ELSE LET p == publish(m, rv, len)
            IN [ret |-> p.ret, attempted |-> TRUE, frees |-> p.frees,
                accepted |-> p.accepted, metrics |-> p.metrics]

\* handle_subscribe_group, the topic being the default one or the params'
handle_subscribe_group(tbl, app, driver, grp, params, fault) ==
    IF params = "NULL"
    THEN IF default_upload_topic(app, driver, grp, fault) = "NULL"
         THEN [ret |-> "EINTERNAL", tbl |-> tbl]
         ELSE route_tbl_add_new(tbl, driver, grp,
                                default_upload_topic(app, driver, grp, fault))
    ELSE IF neu_parse_param(params) = "NULL"
    THEN [ret |-> "GROUP_PARAMETER_INVALID", tbl |-> tbl]
    ELSE route_tbl_add_new(tbl, driver, grp, neu_parse_param(params))

\* handle_unsubscribe_group
handle_unsubscribe_group(tbl, driver, grp) ==
    [ret |-> "SUCCESS", tbl |-> route_tbl_del(tbl, driver, grp)]

\* handle_del_group as it would be if it left the route where it is
handle_del_group_keeps_route(tbl, driver, grp) ==
    [ret |-> "SUCCESS", tbl |-> tbl]

\* handle_del_group
handle_del_group(tbl, driver, grp) ==
    [ret |-> "SUCCESS", tbl |-> route_tbl_del(tbl, driver, grp)]

\* handle_del_driver
handle_del_driver(tbl, node) ==
    [ret |-> "SUCCESS", tbl |-> route_tbl_del_driver(tbl, node)]

\* what one step did to the metrics and to a payload, for the attempt's record
Account(len, state, before, after, frees) ==
    [len |-> len, state |-> state, frees |-> frees,
     ok |-> after.SEND_MSGS_TOTAL - before.SEND_MSGS_TOTAL,
     bytes |-> <<after.SEND_BYTES_5S - before.SEND_BYTES_5S,
                 after.SEND_BYTES_30S - before.SEND_BYTES_30S,
                 after.SEND_BYTES_60S - before.SEND_BYTES_60S>>,
     err |-> after.SEND_MSG_ERRORS_TOTAL - before.SEND_MSG_ERRORS_TOTAL]

MqttInit ==
    /\ route_tbl = {}
    /\ metrics = NoMetrics
    /\ attempts = <<>>
    /\ q_last = [op |-> "", ret |-> "", driver |-> "", group |-> "",
                 params |-> ""]

HandleSubscribeGroup(drivers) ==
    /\ \E app \in RouteApps, driver \in drivers, grp \in RouteGroups,
          params \in Params, fault \in {"none", "asprintf"} :
          LET r == handle_subscribe_group(route_tbl, app, driver, grp, params,
                                          fault)
          IN /\ route_tbl' = r.tbl
             /\ q_last' = [op |-> "subscribe_group", ret |-> r.ret,
                           driver |-> driver, group |-> grp,
                           params |-> params]
    /\ UNCHANGED <<metrics, attempts, MqttRest>>

HandleUnsubscribeGroup(drivers) ==
    /\ \E driver \in drivers, grp \in RouteGroups :
          LET r == handle_unsubscribe_group(route_tbl, driver, grp)
          IN /\ route_tbl' = r.tbl
             /\ q_last' = [op |-> "unsubscribe_group", ret |-> r.ret,
                           driver |-> driver, group |-> grp, params |-> ""]
    /\ UNCHANGED <<metrics, attempts, MqttRest>>

\* DEL_GROUP reaches the app
HandleDelGroup(drivers) ==
    /\ \E driver \in drivers, grp \in RouteGroups :
          LET r == handle_del_group(route_tbl, driver, grp)
          IN /\ route_tbl' = r.tbl
             /\ q_last' = [op |-> "del_group", ret |-> r.ret,
                           driver |-> driver, group |-> grp, params |-> ""]
    /\ UNCHANGED <<metrics, attempts, MqttRest>>

\* NODE_DELETED reaches the app
HandleDelDriver(drivers) ==
    /\ \E node \in drivers :
          LET r == handle_del_driver(route_tbl, node)
          IN /\ route_tbl' = r.tbl
             /\ q_last' = [op |-> "del_driver", ret |-> r.ret,
                           driver |-> node, group |-> "", params |-> ""]
    /\ UNCHANGED <<metrics, attempts, MqttRest>>

\* TRANS_DATA reaches the app
HandleTransData(drivers, lens) ==
    /\ Len(attempts) < MaxPublish
    /\ \E driver \in drivers, grp \in RouteGroups,
          client \in {"NULL", "disconnected", "ready"}, json \in BOOLEAN,
          rv \in {0, -1}, len \in lens :
          LET r == handle_trans_data(route_tbl, metrics, driver, grp, client,
                                     json, rv, len)
          IN /\ metrics' = r.metrics
             /\ attempts' =
                   IF r.attempted
                   THEN Append(attempts,
                               Account(len, IF r.accepted THEN "inflight"
                                            ELSE "refused",
                                       metrics, r.metrics, r.frees))
                   ELSE attempts
             /\ q_last' = [op |-> "trans_data", ret |-> r.ret,
                           driver |-> driver, group |-> grp, params |-> ""]
    /\ UNCHANGED <<route_tbl, MqttRest>>

\* the client completes a publish it accepted
PublishCb ==
    /\ \E k \in 1..Len(attempts), errcode \in {0, -1} :
          /\ attempts[k].state = "inflight"
          /\ LET r == publish_cb(metrics, errcode, attempts[k].len)
             IN /\ metrics' = r.metrics
                /\ attempts' =
                      [attempts EXCEPT ![k] =
                          Account(attempts[k].len,
                                  IF errcode = 0 THEN "sent" ELSE "failed",
                                  metrics, r.metrics, attempts[k].frees + r.frees)]
                /\ q_last' = [op |-> "publish_cb", ret |-> "",
                              driver |-> "", group |-> "", params |-> ""]
    /\ UNCHANGED <<route_tbl, MqttRest>>

MqttNext ==
    \/ HandleSubscribeGroup(RouteDrivers)
    \/ HandleUnsubscribeGroup(RouteDrivers)
    \/ HandleTransData(RouteDrivers, PayloadLens)
    \/ PublishCb

\* the route table of an app subscribed to the groups of two drivers, which
\* are unsubscribed and deleted while data comes in
RouteNext ==
    \/ HandleSubscribeGroup(ManyDrivers)
    \/ HandleUnsubscribeGroup(ManyDrivers)
    \/ HandleDelGroup(ManyDrivers)
    \/ HandleDelDriver(ManyDrivers)
    \/ HandleTransData(ManyDrivers, {1})

\* the loop thread step by step, against threads that add and delete handles
RaceWatch == {"timer", "io"}
RaceNext ==
    \/ NeuEventAddTimer(RaceWatch)
    \/ NeuEventAddIo(RaceWatch)
    \/ NeuEventDelIo(RaceWatch)
    \/ DelTimerStop(RaceWatch)
    \/ DelTimerClose(RaceWatch)
    \/ IoReadable(RaceWatch)
    \/ LoopFetch(RaceWatch)
    \/ LoopHandle(RaceWatch)
    \/ LoopReturn(RaceWatch)
    \/ Tick(RaceWatch)

(***************************************************************************)
(* tag.c: neu_datatag_parse_addr_option                                    *)
(***************************************************************************)
\* the characters an address is made of: digits, the option separator, a
\* sign, the four encoding letters
Digits == {"0", "1", "6"}
DigitVal == [c \in Digits |-> IF c = "0" THEN 0 ELSE IF c = "1" THEN 1 ELSE 6]
Chars == Digits \cup {".", "-", "H", "L", "D", "E"}
Addresses == UNION {[1..n -> Chars] : n \in 0..MaxAddr}
ParsedTypes == {"STRING", "BIT"}

\* find_last_character: position of the last occurrence, 0 for NULL
find_last_character(str, character) ==
    IF \E i \in 1..Len(str) : str[i] = character
    THEN CHOOSE i \in 1..Len(str) :
             /\ str[i] = character
             /\ \A j \in (i + 1)..Len(str) : str[j] # character
    ELSE 0

\* the values an integer object of that many bits holds
IntRange(bits) == -(2 ^ (bits - 1))..(2 ^ (bits - 1) - 1)
\* what a %d conversion may leave in an object of that many bits: the value
\* when it is representable, any value of the object when it is not
Stored(v, bits) == IF v \in IntRange(bits) THEN {v} ELSE IntRange(bits)

\* the decimal digits from position i on: their value and the position after
RECURSIVE scan_digits(_, _, _)
scan_digits(str, i, v) ==
    IF i <= Len(str) /\ str[i] \in Digits
    THEN scan_digits(str, i + 1, v * 10 + DigitVal[str[i]])
    ELSE [v |-> v, k |-> i]

\* a %d conversion from position i on: an optional sign and digits
\* [ok, v, k]; no digit is a matching failure, the end of the input an
\* input failure
scan_int(str, i) ==
    LET neg == i <= Len(str) /\ str[i] = "-"
        j == IF neg THEN i + 1 ELSE i
        d == scan_digits(str, j, 0)
    IN IF d.k = j
       THEN [ok |-> FALSE, eof |-> i > Len(str), v |-> 0, k |-> i]
       ELSE [ok |-> TRUE, eof |-> FALSE, v |-> IF neg THEN -d.v ELSE d.v,
             k |-> d.k]

\* sscanf(op, ".%hd%c", &length, &t) with t preset to 0: the conversions
\* made, whether length was written and the value converted, and t;
\* "" stands for the character 0
sscanf_hd_c(str, op) ==
    LET d == scan_int(str, op + 1) IN
    IF ~d.ok
    THEN [n |-> IF d.eof THEN -1 ELSE 0, set |-> FALSE, v |-> 0, t |-> ""]
    ELSE IF d.k > Len(str)
    THEN [n |-> 1, set |-> TRUE, v |-> d.v, t |-> ""]
    ELSE [n |-> 2, set |-> TRUE, v |-> d.v, t |-> str[d.k]]

\* sscanf(op, ".%hhd", &bit)
sscanf_hhd(str, op) ==
    LET d == scan_int(str, op + 1) IN
    IF ~d.ok
    THEN [n |-> IF d.eof THEN -1 ELSE 0, set |-> FALSE, v |-> 0]
    ELSE [n |-> 1, set |-> TRUE, v |-> d.v]

\* case NEU_TYPE_STRING: the switch over the encoding letter
string_type(t) ==
    CASE t = "H" -> "NEU_DATATAG_STRING_TYPE_H"
      [] t = "L" -> "NEU_DATATAG_STRING_TYPE_L"
      [] t = "D" -> "NEU_DATATAG_STRING_TYPE_D"
      [] t = "E" -> "NEU_DATATAG_STRING_TYPE_D"
      [] OTHER -> "NEU_DATATAG_STRING_TYPE_H"

\* case NEU_TYPE_STRING, with the length the conversion stored; set tells
\* whether string.length was written at all
parse_string(address, length) ==
    LET op == find_last_character(address, ".") IN
    IF op = 0
    THEN [ret |-> -1, option |-> [set |-> FALSE, length |-> 0, type |-> ""]]
    ELSE LET s == sscanf_hd_c(address, op) IN
         [ret |-> IF s.n < 1 \/ length <= 0 THEN -1 ELSE 0,
          option |-> [set |-> s.set, length |-> IF s.set THEN length ELSE 0,
                      type |-> string_type(s.t)]]

\* case NEU_TYPE_BIT, with the bit the conversion stored; set tells whether
\* bit.bit was written at all
parse_bit(address, bit) ==
    LET op == find_last_character(address, ".") IN
    IF op = 0
    THEN [ret |-> 0, option |-> [op |-> FALSE, set |-> FALSE, bit |-> 0]]
    ELSE LET s == sscanf_hhd(address, op) IN
         [ret |-> 0,
          option |-> [op |-> TRUE, set |-> s.set,
                      bit |-> IF s.set THEN bit ELSE 0]]

\* the number after the last "." of the address, 0 when there is none
Converted(address) ==
    LET op == find_last_character(address, ".") IN
    IF op = 0 THEN 0 ELSE scan_int(address, op + 1).v

NoTag ==
    [type |-> "", address |-> <<>>, called |-> FALSE, ret |-> 0,
     option |-> [set |-> FALSE]]

TagInit == t_last = NoTag

\* the caller fills in a tag: its type and its address
TagGiven ==
    /\ t_last = NoTag
    /\ \E type \in ParsedTypes, address \in Addresses :
          t_last' = [NoTag EXCEPT !.type = type, !.address = address]
    /\ UNCHANGED TagRest

\* neu_datatag_parse_addr_option on a STRING tag
ParseStringAddr ==
    /\ t_last.type = "STRING"
    /\ ~t_last.called
    /\ \E length \in Stored(Converted(t_last.address), 16) :
       \E r \in {parse_string(t_last.address, length)} :
          t_last' = [t_last EXCEPT !.called = TRUE, !.ret = r.ret,
                                   !.option = r.option]
    /\ UNCHANGED TagRest

\* neu_datatag_parse_addr_option on a BIT tag
ParseBitAddr ==
    /\ t_last.type = "BIT"
    /\ ~t_last.called
    /\ \E bit \in Stored(Converted(t_last.address), 8) :
       \E r \in {parse_bit(t_last.address, bit)} :
          t_last' = [t_last EXCEPT !.called = TRUE, !.ret = r.ret,
                                   !.option = r.option]
    /\ UNCHANGED TagRest

\* neu_tag_free: the tag is gone and another one may be given
NeuTagFree ==
    /\ t_last.called
    /\ t_last' = NoTag
    /\ UNCHANGED TagRest

TagNext ==
    \/ TagGiven
    \/ ParseStringAddr
    \/ ParseBitAddr
    \/ NeuTagFree

(***************************************************************************)
(* metrics.c: the registered metrics                                       *)
(***************************************************************************)
MetricNames == {"m1", "m2"}
MetricTypes == {"COUNTER", "ROLLING_COUNTER"}
MetricHelps == {"h1", "h2"}

\* neu_metric_entries_add; calloc and neu_rolling_counter_new may fail
neu_metric_entries_add(entries, name, help, type, init, fault) ==
    IF name \in DOMAIN entries
    THEN IF entries[name].type # type \/ entries[name].help # help
         THEN [ret |-> -1, entries |-> entries]
         ELSE [ret |-> 1, entries |-> entries]
    ELSE IF fault = "calloc"
    THEN [ret |-> -1, entries |-> entries]
    ELSE IF type = "ROLLING_COUNTER" /\ init > 0 /\ fault = "rcnt"
    THEN [ret |-> -1, entries |-> entries]
    ELSE [ret |-> 0,
          entries |->
              [n \in DOMAIN entries \cup {name} |->
                  IF n = name
                  THEN [type |-> type, help |-> help,
                        value |-> IF type = "ROLLING_COUNTER" THEN 0 ELSE init]
                  ELSE entries[n]]]

\* neu_metrics_register_entry; the uint64_t counter of a registered entry
\* stays between 1 and MaxRefs, far from its width
neu_metrics_register_entry(entries, name, help, type, fault) ==
    LET a == neu_metric_entries_add(entries, name, help, type, 0, fault) IN
    IF a.ret # -1
    THEN [ret |-> 0,
          entries |-> [a.entries EXCEPT ![name].value = @ + 1]]
    ELSE [ret |-> a.ret, entries |-> entries]

\* metrics_unregister_entry on a name HASH_FIND_STR finds
metrics_unregister_entry(entries, name) ==
    IF 0 = entries[name].value - 1
    THEN [n \in DOMAIN entries \ {name} |-> entries[n]]
    ELSE [entries EXCEPT ![name].value = @ - 1]

\* what --e->value does when HASH_FIND_STR left e NULL: the process is
\* killed by the fault, or the write lands nowhere that is read again
NullEntry == {"SIGSEGV", "ignored"}

RegistryInit ==
    /\ registered_metrics = <<>>
    /\ refs = [n \in MetricNames |-> 0]
    /\ r_alive = TRUE
    /\ r_last = [op |-> "", name |-> "", ret |-> 0]

\* neu_metrics_register_entry under the write lock
NeuMetricsRegisterEntry ==
    /\ r_alive
    /\ \E name \in MetricNames, help \in MetricHelps, type \in MetricTypes,
          fault \in {"none", "calloc"} :
          /\ refs[name] < MaxRefs
          /\ \E r \in {neu_metrics_register_entry(registered_metrics, name,
                                                  help, type, fault)} :
                /\ registered_metrics' = r.entries
                /\ refs' = IF r.ret = 0 THEN [refs EXCEPT ![name] = @ + 1]
                                        ELSE refs
                /\ r_last' = [op |-> "register", name |-> name, ret |-> r.ret]
    /\ UNCHANGED <<r_alive, RegistryRest>>

\* neu_metrics_unregister_entry under the write lock
NeuMetricsUnregisterEntry ==
    /\ r_alive
    /\ \E name \in MetricNames :
          /\ r_last' = [op |-> "unregister", name |-> name, ret |-> 0]
          /\ \/ /\ name \in DOMAIN registered_metrics
                /\ registered_metrics' =
                       metrics_unregister_entry(registered_metrics, name)
                /\ refs' = [refs EXCEPT ![name] = IF @ > 0 THEN @ - 1 ELSE 0]
                /\ UNCHANGED r_alive
             \/ /\ name \notin DOMAIN registered_metrics
                /\ \E outcome \in NullEntry : r_alive' = (outcome = "ignored")
                /\ UNCHANGED <<registered_metrics, refs>>
    /\ UNCHANGED RegistryRest

RegistryNext ==
    \/ NeuMetricsRegisterEntry
    \/ NeuMetricsUnregisterEntry

(***************************************************************************)
(* group.c: neu_group_change_test next to a thread that mutates the group  *)
(***************************************************************************)
\* the calls the mutating thread makes
Mutations ==
    {[op |-> o, tag |-> t] : o \in {"add_tag", "update_tag"}, t \in TagInputs}
    \cup {[op |-> "del_tag", name |-> n] : n \in TagNames}
    \cup {[op |-> "update", interval |-> i] : i \in Intervals}

\* the call a mutation makes on the group
mutate(g, m, now) ==
    CASE m.op = "add_tag" -> neu_group_add_tag(g, m.tag, now)
      [] m.op = "update_tag" -> neu_group_update_tag(g, m.tag, now)
      [] m.op = "del_tag" -> neu_group_del_tag(g, m.name, now)
      [] m.op = "update" -> neu_group_update(g, m.interval, now)

\* the call reaches update_timestamp
stamps(g, m) ==
    IF m.op = "update" THEN g.interval # m.interval
    ELSE mutate(g, m, g.timestamp).ret = "SUCCESS"

ChangeInit ==
    /\ ct = [pc |-> "idle"]
    /\ mut = "idle"
    /\ stamped = [tags |-> <<>>, interval |-> 1000]

\* neu_group_change_test, the test: group->timestamp is read without the
\* mutex and compared with the timestamp of the caller
ChangeTestRead ==
    /\ ct.pc = "idle"
    /\ ct' = [pc |-> IF group.timestamp # consumer.timestamp
                     THEN "split" ELSE "idle"]
    /\ UNCHANGED <<gvars, mut, stamped, RaceRest>>

\* neu_group_change_test, split_static_array over group->tags
ChangeTestSplit ==
    /\ ct.pc = "split"
    /\ \E s \in {split_static_array(group.tags, 1, <<>>, <<>>)} :
          ct' = [pc |-> "call", static_tags |-> s.static_tags,
                 other_tags |-> s.other_tags]
    /\ UNCHANGED <<gvars, mut, stamped, RaceRest>>

\* neu_group_change_test, the callback: group->timestamp and
\* group->interval are read now, the consumer caches what it is handed
ChangeTestCall ==
    /\ ct.pc = "call"
    /\ consumer' = [timestamp |-> group.timestamp,
                    static_tags |-> ct.static_tags,
                    other_tags |-> ct.other_tags,
                    interval |-> group.interval]
    /\ ct' = [pc |-> "idle"]
    /\ UNCHANGED <<group, cb_calls, g_last, pending, mut, stamped, RaceRest>>

\* a mutation up to update_timestamp: the table or the interval is changed,
\* the timestamp is still the old one
MutateTable ==
    /\ mut = "idle"
    /\ \E m \in Mutations :
          /\ m.op = "add_tag" => Len(group.tags) < MaxTags
          /\ IF stamps(group, m)
             THEN /\ group' = [mutate(group, m, group.timestamp).group
                                  EXCEPT !.timestamp = group.timestamp]
                  /\ mut' = "stamp"
             ELSE UNCHANGED <<group, mut>>
    /\ UNCHANGED <<consumer, cb_calls, g_last, pending, ct, stamped, RaceRest>>

\* update_timestamp, which ends the mutation
MutateStamp ==
    /\ mut = "stamp"
    /\ \E now \in ClockReadings : group' = update_timestamp(group, now)
    /\ mut' = "idle"
    /\ stamped' = [tags |-> group.tags, interval |-> group.interval]
    /\ UNCHANGED <<consumer, cb_calls, g_last, pending, ct, RaceRest>>

ChangeNext ==
    \/ ChangeTestRead
    \/ ChangeTestSplit
    \/ ChangeTestCall
    \/ MutateTable
    \/ MutateStamp

(***************************************************************************)
(* metrics.c: neu_metrics_visist                                           *)
(***************************************************************************)
Visitors == {"v1", "v2"}
\* what the visit reads of a node: module->type, state, link_state
NodeKinds ==
    [type : {"DRIVER", "APP"}, state : {"RUNNING", "STOPPED"},
     link : {"CONNECTED", "DISCONNECTED"}]
NoCounts ==
    [north_nodes |-> 0, north_running_nodes |-> 0,
     north_disconnected_nodes |-> 0, south_nodes |-> 0,
     south_running_nodes |-> 0, south_disconnected_nodes |-> 0]

\* neu_metrics_visist, the body of HASH_LOOP for one node
count_node(c, n) ==
    IF n.type = "DRIVER"
    THEN [c EXCEPT
            !.south_nodes = @ + 1,
            !.south_running_nodes = IF n.state = "RUNNING" THEN @ + 1 ELSE @,
            !.south_disconnected_nodes =
                IF n.link = "DISCONNECTED" THEN @ + 1 ELSE @]
    ELSE IF n.type = "APP"
    THEN [c EXCEPT
            !.north_nodes = @ + 1,
            !.north_running_nodes = IF n.state = "RUNNING" THEN @ + 1 ELSE @,
            !.north_disconnected_nodes =
                IF n.link = "DISCONNECTED" THEN @ + 1 ELSE @]
    ELSE c

VisitInit ==
    /\ node_metrics = <<>>
    /\ g_counts = NoCounts
    /\ visit = [v \in Visitors |-> [pc |-> "idle", i |-> 0]]
    /\ v_seen = [by |-> "", counts |-> NoCounts]

\* neu_metrics_add_node: the write lock is had while no visit holds the
\* read lock
NeuMetricsAddNode ==
    /\ \A v \in Visitors : visit[v].pc = "idle"
    /\ Len(node_metrics) < MaxNodes
    /\ \E n \in NodeKinds : node_metrics' = Append(node_metrics, n)
    /\ UNCHANGED <<g_counts, visit, v_seen, VisitRest>>

\* neu_metrics_del_node, under the write lock
NeuMetricsDelNode ==
    /\ \A v \in Visitors : visit[v].pc = "idle"
    /\ \E k \in 1..Len(node_metrics) :
          node_metrics' = [j \in 1..(Len(node_metrics) - 1) |->
                             IF j < k THEN node_metrics[j]
                             ELSE node_metrics[j + 1]]
    /\ UNCHANGED <<g_counts, visit, v_seen, VisitRest>>

\* neu_metrics_visist up to HASH_LOOP: the read lock, which any number of
\* visits hold at once, then the six counters are set to 0
VisitReset(v) ==
    /\ visit[v].pc = "idle"
    /\ g_counts' = NoCounts
    /\ visit' = [visit EXCEPT ![v] = [pc |-> "loop", i |-> 1]]
    /\ UNCHANGED <<node_metrics, v_seen, VisitRest>>

\* HASH_LOOP, one node
VisitNode(v) ==
    /\ visit[v].pc = "loop"
    /\ visit[v].i <= Len(node_metrics)
    /\ g_counts' = count_node(g_counts, node_metrics[visit[v].i])
    /\ visit' = [visit EXCEPT ![v].i = @ + 1]
    /\ UNCHANGED <<node_metrics, v_seen, VisitRest>>

\* cb(&g_metrics_, data), then the unlock
VisitCb(v) ==
    /\ visit[v].pc = "loop"
    /\ visit[v].i > Len(node_metrics)
    /\ v_seen' = [by |-> v, counts |-> g_counts]
    /\ visit' = [visit EXCEPT ![v] = [pc |-> "idle", i |-> 0]]
    /\ UNCHANGED <<node_metrics, g_counts, VisitRest>>

VisitNext ==
    \/ NeuMetricsAddNode
    \/ NeuMetricsDelNode
    \/ \E v \in Visitors : VisitReset(v)
    \/ \E v \in Visitors : VisitNode(v)
    \/ \E v \in Visitors : VisitCb(v)

(***************************************************************************)
(* mqtt_handle.c: the correlation context of downstream requests           *)
(***************************************************************************)
\* no neu_json_mqtt_t was made for the request
NoCtx(kind) ==
    [kind |-> kind, made |-> FALSE, frees |-> 0, stale |-> FALSE,
     phase |-> "done", path |-> ""]

\* neu_json_decode_mqtt_req gave an object
NewCtx(kind) == [NoCtx(kind) EXCEPT !.made = TRUE, !.phase = "request"]

\* neu_json_decode_mqtt_req_free
neu_json_decode_mqtt_req_free(c) == [c EXCEPT !.frees = @ + 1]

\* a read of the object (mqtt->uuid); stale if it was freed before
mqtt_uuid(c) == [c EXCEPT !.stale = @ \/ c.frees > 0]

\* neu_plugin_op: the message goes to the adapter with the ctx in its header,
\* or fails and nothing is sent
neu_plugin_op(c, fault) ==
    IF fault = "plugin_op" THEN [rv |-> -1, ctx |-> c]
    ELSE [rv |-> 0, ctx |-> [c EXCEPT !.phase = "carried"]]

\* send_read_req
send_read_req(c, fault) == neu_plugin_op(mqtt_uuid(c), fault)

\* send_write_tag_req; the value may have a type that cannot be converted
send_write_tag_req(c, fault) ==
    IF fault = "value" THEN [rv |-> -1, ctx |-> mqtt_uuid(c)]
    ELSE neu_plugin_op(mqtt_uuid(c), fault)

\* send_write_tags_req; a string may be too long, calloc may fail, a value
\* may not convert
send_write_tags_req(c, fault) ==
    IF fault \in {"strlen", "calloc", "value"}
    THEN [rv |-> -1, ctx |-> mqtt_uuid(c)]
    ELSE neu_plugin_op(mqtt_uuid(c), fault)

\* the faults that stop a request of each kind
ReqKinds == {"read", "write_tag", "write_tags"}
ReqFaults(kind) ==
    {"none", "malloc", "decode_mqtt", "decode_req", "plugin_op"}
    \cup (IF kind = "write_tag" THEN {"value"} ELSE {})
    \cup (IF kind = "write_tags" THEN {"strlen", "calloc", "value"} ELSE {})

\* what a request handler leaves of the object it was returned with
Left(c, path) ==
    IF c.phase = "carried" THEN c
    ELSE [c EXCEPT !.phase = "done", !.path = path]

\* handle_write_req as it would be if it freed the object after a send that
\* succeeded as well
handle_write_req_frees_always(kind, fault) ==
    IF fault \in {"malloc", "decode_mqtt"} THEN NoCtx(kind)
    ELSE IF fault = "decode_req"
    THEN Left(neu_json_decode_mqtt_req_free(NewCtx(kind)), "decode_req")
    ELSE LET s == IF kind = "write_tag"
                  THEN send_write_tag_req(NewCtx(kind), fault)
                  ELSE send_write_tags_req(NewCtx(kind), fault)
         IN Left(neu_json_decode_mqtt_req_free(s.ctx), "send")

\* handle_write_req
handle_write_req(kind, fault) ==
    IF fault \in {"malloc", "decode_mqtt"} THEN NoCtx(kind)
    ELSE IF fault = "decode_req"
    THEN Left(neu_json_decode_mqtt_req_free(NewCtx(kind)), "decode_req")
    ELSE LET s == IF kind = "write_tag"
                  THEN send_write_tag_req(NewCtx(kind), fault)
                  ELSE send_write_tags_req(NewCtx(kind), fault)
         IN IF 0 # s.rv
            THEN Left(neu_json_decode_mqtt_req_free(s.ctx), "send")
            ELSE Left(s.ctx, "")

\* handle_read_req
handle_read_req(kind, fault) ==
    IF fault \in {"malloc", "decode_mqtt"} THEN NoCtx(kind)
    ELSE IF fault = "decode_req"
    THEN Left(neu_json_decode_mqtt_req_free(NewCtx(kind)), "decode_req")
    ELSE LET s == send_read_req(NewCtx(kind), fault)
         IN IF 0 # s.rv
            THEN Left(neu_json_decode_mqtt_req_free(s.ctx), "send")
            ELSE Left(s.ctx, "")

\* handle_write_response; generate_write_resp_json reads the object
handle_write_response(c, client, json, rv) ==
    LET end(ret, x) ==
            [ret |-> ret,
             ctx |-> [neu_json_decode_mqtt_req_free(x) EXCEPT
                         !.phase = "done", !.path = ret]]
    IN IF client = "NULL" THEN end("MQTT_IS_NULL", c)
       ELSE IF client = "disconnected" THEN end("MQTT_FAILURE", c)
       ELSE IF ~json THEN end("EINTERNAL", mqtt_uuid(c))
       ELSE end(publish(NoMetrics, rv, 1).ret, mqtt_uuid(c))

\* handle_read_response; generate_read_resp_json reads the object once the
\* tag values are converted
handle_read_response(c, client, json, tags, rv) ==
    LET end(ret, x) ==
            [ret |-> ret,
             ctx |-> [neu_json_decode_mqtt_req_free(x) EXCEPT
                         !.phase = "done", !.path = ret]]
    IN IF client = "NULL" THEN end("MQTT_IS_NULL", c)
       ELSE IF client = "disconnected" THEN end("MQTT_FAILURE", c)
       ELSE IF ~tags THEN end("EINTERNAL", c)
       ELSE IF ~json THEN end("EINTERNAL", mqtt_uuid(c))
       ELSE end(publish(NoMetrics, rv, 1).ret, mqtt_uuid(c))

CtxInit == ctxs = <<>>

\* a read or write request comes from the broker
MqttRequest ==
    /\ Len(ctxs) < MaxReqs
    /\ \E kind \in ReqKinds :
       \E fault \in ReqFaults(kind) :
          ctxs' = Append(ctxs, IF kind = "read"
                               THEN handle_read_req(kind, fault)
                               ELSE handle_write_req(kind, fault))
    /\ UNCHANGED CtxRest

\* the adapter hands the app the response to a request it carried, with the
\* ctx of the request
MqttResponse ==
    /\ \E k \in 1..Len(ctxs), client \in {"NULL", "disconnected", "ready"},
          json \in BOOLEAN, tags \in BOOLEAN, rv \in {0, -1} :
          /\ ctxs[k].phase = "carried"
          /\ ctxs' = [ctxs EXCEPT ![k] =
                         IF ctxs[k].kind = "read"
                         THEN handle_read_response(ctxs[k], client, json,
                                                   tags, rv).ctx
                         ELSE handle_write_response(ctxs[k], client, json,
                                                    rv).ctx]
    /\ UNCHANGED CtxRest

CtxNext ==
    \/ MqttRequest
    \/ MqttResponse

(***************************************************************************)
(* tag.c: neu_datatag_string_tod, neu_datatag_string_toe                   *)
(***************************************************************************)
NUL == ""
Letter == {"a", "b"}
Strings == UNION {[1..n -> Letter] : n \in 1..MaxLen}
\* how the library is built: with the assertions, or with NDEBUG
Builds == {"assert", "NDEBUG"}

\* neu_datatag_string_tod: assert(len * 2 < len), then the buffer is cleared
\* and character i goes to the odd cell i * 2 + 1 (cells counted from 0)
neu_datatag_string_tod(str, len, buf_len, build) ==
    IF build = "assert" /\ ~(len * 2 < len)
    THEN [ret |-> -1, aborted |-> TRUE, buf |-> str]
    ELSE [ret |-> len * 2, aborted |-> FALSE,
          buf |-> [j \in 1..buf_len |->
                     IF (j - 1) % 2 = 1 /\ (j - 1) \div 2 < len
                     THEN str[(j - 1) \div 2 + 1] ELSE NUL]]

\* neu_datatag_string_toe: the same, character i going to the even cell i * 2
neu_datatag_string_toe(str, len, buf_len, build) ==
    IF build = "assert" /\ ~(len * 2 < len)
    THEN [ret |-> -1, aborted |-> TRUE, buf |-> str]
    ELSE [ret |-> len * 2, aborted |-> FALSE,
          buf |-> [j \in 1..buf_len |->
                     IF (j - 1) % 2 = 0 /\ (j - 1) \div 2 < len
                     THEN str[(j - 1) \div 2 + 1] ELSE NUL]]

NoWiden ==
    [op |-> "", str |-> <<>>, len |-> 0, buf_len |-> 0, called |-> FALSE,
     ret |-> 0, aborted |-> FALSE, buf |-> <<>>]

WidenInit == w_last = NoWiden

\* a caller has a string of len characters in a buffer of buf_len bytes,
\* large enough for the widened string
WidenGiven ==
    /\ w_last = NoWiden
    /\ \E str \in Strings, op \in {"tod", "toe"} :
       \E buf_len \in (2 * Len(str))..(2 * MaxLen + 1) :
          w_last' = [NoWiden EXCEPT !.op = op, !.str = str, !.len = Len(str),
                                    !.buf_len = buf_len]
    /\ UNCHANGED WidenRest

StringTod ==
    /\ w_last.op = "tod" /\ ~w_last.called
    /\ \E build \in Builds :
          LET r == neu_datatag_string_tod(w_last.str, w_last.len,
                                          w_last.buf_len, build)
          IN w_last' = [w_last EXCEPT !.called = TRUE, !.ret = r.ret,
                                      !.aborted = r.aborted, !.buf = r.buf]
    /\ UNCHANGED WidenRest

StringToe ==
    /\ w_last.op = "toe" /\ ~w_last.called
    /\ \E build \in Builds :
          LET r == neu_datatag_string_toe(w_last.str, w_last.len,
                                          w_last.buf_len, build)
          IN w_last' = [w_last EXCEPT !.called = TRUE, !.ret = r.ret,
                                      !.aborted = r.aborted, !.buf = r.buf]
    /\ UNCHANGED WidenRest

\* the caller is done with the buffer
WidenDone ==
    /\ w_last.called
    /\ w_last' = NoWiden
    /\ UNCHANGED WidenRest

WidenNext ==
    \/ WidenGiven
    \/ StringTod
    \/ StringToe
    \/ WidenDone

(***************************************************************************)
(* manager_internal.c: the deletion paths, call by call                    *)
(***************************************************************************)
NoFlow == [op |-> "", node |-> "", pc |-> "idle", setting |-> ""]
\* the callers of neu_manager_del_node: itself, del_node, the failure branch
\* of add_driver and the rollback loop of neu_manager_add_drivers
DeletionPaths == {"neu_manager_del_node", "del_node", "add_driver", "rollback"}

FlowInit ==
    /\ node_manager = {}
    /\ adapters = [n \in NodeNames |-> "none"]
    /\ flow = NoFlow

\* neu_manager_add_node up to neu_adapter_create: the name is free and the
\* adapter is made
AddNodeCreate ==
    /\ flow.pc = "idle"
    /\ \E n \in NodeNames \ node_manager, setting \in Settings :
          /\ adapters' = [adapters EXCEPT ![n] = "created"]
          /\ flow' = [op |-> "neu_manager_add_node", node |-> n,
                      pc |-> "neu_node_manager_add", setting |-> setting]
    /\ UNCHANGED <<node_manager, FlowRest>>

\* neu_manager_add_node from neu_node_manager_add on, one call per step; a
\* refused setting is undone by neu_node_manager_del, neu_adapter_uninit and
\* neu_adapter_destroy, in that order
AddNodeStep ==
    /\ flow.op = "neu_manager_add_node"
    /\ LET n == flow.node IN
       CASE flow.pc = "neu_node_manager_add" ->
              /\ node_manager' = node_manager \cup {n}
              /\ flow' = [flow EXCEPT !.pc = "neu_adapter_init"]
              /\ UNCHANGED adapters
         [] flow.pc = "neu_adapter_init" ->
              /\ adapters' = [adapters EXCEPT ![n] = "inited"]
              /\ flow' = [flow EXCEPT !.pc = "neu_adapter_set_setting"]
              /\ UNCHANGED node_manager
         [] flow.pc = "neu_adapter_set_setting" ->
              /\ flow' = IF /\ flow.setting # "NULL"
                            /\ neu_adapter_set_setting(flow.setting) # "SUCCESS"
                         THEN [flow EXCEPT !.pc = "neu_node_manager_del"]
                         ELSE NoFlow
              /\ UNCHANGED <<node_manager, adapters>>
         [] flow.pc = "neu_node_manager_del" ->
              /\ node_manager' = node_manager \ {n}
              /\ flow' = [flow EXCEPT !.pc = "neu_adapter_uninit"]
              /\ UNCHANGED adapters
         [] flow.pc = "neu_adapter_uninit" ->
              /\ adapters' = [adapters EXCEPT ![n] = "uninited"]
              /\ flow' = [flow EXCEPT !.pc = "neu_adapter_destroy"]
              /\ UNCHANGED node_manager
         [] flow.pc = "neu_adapter_destroy" ->
              /\ adapters' = [adapters EXCEPT ![n] = "destroyed"]
              /\ flow' = NoFlow
              /\ UNCHANGED node_manager
    /\ UNCHANGED FlowRest

\* a deletion begins: neu_node_manager_find found the adapter. del_node, the
\* failure branch of add_driver and the rollback loop call neu_adapter_uninit
\* and then neu_manager_del_node
DeleteFind ==
    /\ flow.pc = "idle"
    /\ \E n \in node_manager, path \in DeletionPaths :
          flow' = [op |-> path, node |-> n, setting |-> "",
                   pc |-> IF path = "neu_manager_del_node"
                          THEN "neu_adapter_destroy"
                          ELSE "neu_adapter_uninit"]
    /\ UNCHANGED <<node_manager, adapters, FlowRest>>

\* the calls of a deletion, one per step; neu_manager_del_node calls
\* neu_adapter_destroy, neu_subscribe_manager_remove and neu_node_manager_del,
\* in that order
DeleteStep ==
    /\ flow.op \in DeletionPaths
    /\ LET n == flow.node IN
       CASE flow.pc = "neu_adapter_uninit" ->
              /\ adapters' = [adapters EXCEPT ![n] = "uninited"]
              /\ flow' = [flow EXCEPT !.pc = "neu_adapter_destroy"]
              /\ UNCHANGED node_manager
         [] flow.pc = "neu_adapter_destroy" ->
              /\ adapters' = [adapters EXCEPT ![n] = "destroyed"]
              /\ flow' = [flow EXCEPT !.pc = "neu_subscribe_manager_remove"]
              /\ UNCHANGED node_manager
         [] flow.pc = "neu_subscribe_manager_remove" ->
              /\ flow' = [flow EXCEPT !.pc = "neu_node_manager_del"]
              /\ UNCHANGED <<node_manager, adapters>>
         [] flow.pc = "neu_node_manager_del" ->
              /\ node_manager' = node_manager \ {n}
              /\ flow' = NoFlow
              /\ UNCHANGED adapters
    /\ UNCHANGED FlowRest

FlowNext ==
    \/ AddNodeCreate
    \/ AddNodeStep
    \/ DeleteFind
    \/ DeleteStep

Init ==
    /\ GroupInit /\ ManagerInit /\ EventInit /\ BusInit /\ MqttInit
    /\ TagInit /\ RegistryInit /\ ChangeInit /\ VisitInit /\ FlowInit
    /\ CtxInit /\ WidenInit

GroupSpec == Init /\ [][GroupNext]_vars

BatchSpec == Init /\ [][BatchNext]_vars

ManagerSpec == Init /\ [][ManagerNext]_vars

SubscribeSpec == Init /\ [][SubscribeNext]_vars

NodeSpec == Init /\ [][NodeNext]_vars

RoundTripSpec == Init /\ [][RoundTripNext]_vars

RenameSpec == Init /\ [][RenameNext]_vars

SendSpec == Init /\ [][SendNext]_vars
DriverSpec == Init /\ [][DriverNext]_vars
TagSpec == Init /\ [][TagNext]_vars
RegistrySpec == Init /\ [][RegistryNext]_vars
ChangeSpec == Init /\ [][ChangeNext]_vars
VisitSpec == Init /\ [][VisitNext]_vars
FlowSpec == Init /\ [][FlowNext]_vars

EventSpec == Init /\ [][EventNext]_vars

TimerSpec == Init /\ [][TimerNext]_vars

RaceSpec == Init /\ [][RaceNext]_vars

\* the loop thread and the closing thread go on while they can: epoll_wait
\* returns, a callback that was entered returns, the join ends
CloseSpec ==
    /\ Init /\ [][CloseNext]_vars
    /\ WF_vars(LoopWaitClosing(CloseWatch))
    /\ WF_vars(LoopRewait(CloseWatch))
    /\ WF_vars(LoopReturnClosing(CloseWatch))
    /\ WF_vars(NeuEventCloseJoin(CloseWatch))

\* every thread that can take a step takes one: a callback that was entered
\* returns, a caller that can have the mutex gets it
DelSpec ==
    /\ Init /\ [][DelNext]_vars
    /\ WF_vars(LoopReturn(DelWatch))
    /\ WF_vars(DelTimerClose(DelWatch))

BusSpec == Init /\ [][BusNext]_vars

MqttSpec == Init /\ [][MqttNext]_vars
RouteSpec == Init /\ [][RouteNext]_vars
CtxSpec == Init /\ [][CtxNext]_vars
WidenSpec == Init /\ [][WidenNext]_vars

(***************************************************************************)
(* Properties of the group                                                 *)
(***************************************************************************)
Range(seq) == {seq[i] : i \in 1..Len(seq)}
NoDuplicates(seq) == \A i, j \in 1..Len(seq) : seq[i] = seq[j] => i = j
TagSet(g) == Range(g.tags)
HasTag(g, name) == \E t \in TagSet(g) : t.name = name
TagMutations == {"add_tag", "update_tag", "del_tag"}

\* C1: every successful mutation of the group (add/update/delete of a tag, or
\* neu_group_update to a different interval) leaves the change timestamp
\* strictly greater than it was before the call.
C1_TimestampStrictlyIncreases ==
    [][(/\ g_last'.ret = "SUCCESS"
        /\ \/ g_last'.op \in TagMutations
           \/ g_last'.op = "update" /\ group'.interval # group.interval)
       => group'.timestamp > group.timestamp]_gvars

\* C2: once the consumer has cached a timestamp it was given, a successful
\* add/update/delete of a tag makes its next neu_group_change_test invoke the
\* callback, and the arrays the consumer then holds are those of the group's
\* current tags.
C2_ChangeNeverMissed ==
    [][(g_last'.op = "change_test" /\ pending /\ consumer.timestamp # 0)
       => /\ Len(cb_calls') = 1
          /\ Range(consumer'.static_tags) \cup Range(consumer'.other_tags)
               = {t \in TagSet(group) :
                     t.attribute \cap {"STATIC", "READ", "SUBSCRIBE"} # {}}]_gvars

\* C3: neu_group_change_test makes no callback when the group's timestamp
\* equals last_ts; otherwise exactly one, carrying the group's timestamp and
\* interval, static_tags = exactly the STATIC tags, other_tags = exactly the
\* non-STATIC tags with READ or SUBSCRIBE; no tag twice, none in both arrays.
C3_ChangeTestContract ==
    [][g_last'.op = "change_test"
       => IF group.timestamp = consumer.timestamp
          THEN cb_calls' = <<>> /\ consumer' = consumer
          ELSE /\ Len(cb_calls') = 1
               /\ cb_calls'[1].timestamp = group.timestamp
               /\ cb_calls'[1].interval = group.interval
               /\ Range(cb_calls'[1].static_tags)
                    = {t \in TagSet(group) : "STATIC" \in t.attribute}
               /\ Range(cb_calls'[1].other_tags)
                    = {t \in TagSet(group) :
                          /\ "STATIC" \notin t.attribute
                          /\ t.attribute \cap {"READ", "SUBSCRIBE"} # {}}
               /\ NoDuplicates(cb_calls'[1].static_tags \o cb_calls'[1].other_tags)
               /\ consumer' = cb_calls'[1]]_gvars

\* a change_test that called back with a static tag and another tag while the
\* group also holds a tag that is neither
C3_Witness ==
    /\ g_last.op = "change_test"
    /\ Len(cb_calls) = 1
    /\ cb_calls[1].static_tags # <<>>
    /\ Len(cb_calls[1].static_tags) + Len(cb_calls[1].other_tags) < Len(group.tags)

\* C4: add_tag of an existing name returns TAG_NAME_CONFLICT, update_tag and
\* del_tag of a missing name return TAG_NOT_EXIST, the group (tags, their
\* contents, timestamp) is unchanged in these cases, and tag names stay unique.
C4_TagErrorsLeaveGroupUnchanged ==
    [][/\ (g_last'.op = "add_tag" /\ HasTag(group, g_last'.name))
            => (g_last'.ret = "TAG_NAME_CONFLICT" /\ group' = group)
       /\ (g_last'.op \in {"update_tag", "del_tag"} /\ ~HasTag(group, g_last'.name))
            => (g_last'.ret = "TAG_NOT_EXIST" /\ group' = group)
       /\ \A i, j \in 1..Len(group'.tags) :
            group'.tags[i].name = group'.tags[j].name => i = j]_gvars

\* an add_tag was refused on a group that holds two tags
C4_Witness ==
    /\ g_last.op = "add_tag"
    /\ g_last.ret = "TAG_NAME_CONFLICT"
    /\ Len(group.tags) = 2

\* C5: every change of the interval, by neu_group_update or by
\* neu_group_set_interval, changes the timestamp; neu_group_update to the
\* same interval leaves the timestamp as it was.
C5_IntervalChangeBumpsTimestamp ==
    [][/\ group'.interval # group.interval => group'.timestamp # group.timestamp
       /\ (g_last'.op = "update" /\ group'.interval = group.interval)
            => group'.timestamp = group.timestamp]_gvars

(***************************************************************************)
(* Properties of the manager                                               *)
(***************************************************************************)
Returned(op) == m_last'.op = op /\ alive'

RefusalOf(e) ==
    IF e.plugin \notin DOMAIN PluginInfo THEN "LIBRARY_NOT_FOUND"
    ELSE IF PluginInfo[e.plugin].single THEN "LIBRARY_NOT_ALLOW_CREATE_INSTANCE"
    ELSE IF PluginInfo[e.plugin].type # "DRIVER" THEN "PLUGIN_TYPE_NOT_SUPPORT"
    ELSE "GROUP_MAX_GROUPS"

\* C7: a batch holding an element with an unknown plugin, a singleton plugin,
\* a plugin that is no driver or more than NEU_GROUP_MAX_PER_NODE groups is
\* refused with the code of its first such element (LIBRARY_NOT_FOUND,
\* LIBRARY_NOT_ALLOW_CREATE_INSTANCE, PLUGIN_TYPE_NOT_SUPPORT,
\* GROUP_MAX_GROUPS), and the nodes, the subscriptions and the persisted
\* nodes are as before the call.
C7_FastCheckRefusesUntouched ==
    [][(m_last'.op = "add_drivers" /\ m_last'.arg.bad # <<>>)
       => /\ m_last'.ret = RefusalOf(m_last'.arg.bad[1])
          /\ nodes' = nodes
          /\ subs' = subs
          /\ storage' = storage
          /\ alive']_vars

\* a batch naming two nodes was refused for its group count while one of
\* them was registered and subscribed to
C7_Witness ==
    /\ m_last.op = "add_drivers"
    /\ m_last.ret = "GROUP_MAX_GROUPS"
    /\ m_last.arg.names = {"n1", "n2"}
    /\ \E s \in subs : s.driver \in m_last.arg.names

NodeDeleted(d, a) ==
    [type |-> "NODE_DELETED", sender |-> "manager", receiver |-> a,
     app |-> "", driver |-> d, group |-> 0]
UnsubscribeGroup(s) ==
    [type |-> "UNSUBSCRIBE_GROUP", sender |-> "manager", receiver |-> s.driver,
     app |-> s.app, driver |-> s.driver, group |-> s.group]
Count(seq, m) == Cardinality({i \in 1..Len(seq) : seq[i] = m})

\* the deletion of driver d left no subscription to d and sent one
\* NODE_DELETED to each app that was subscribed to it
DriverCascade(d) ==
    /\ \A s \in subs' : s.driver # d
    /\ \A a \in {s.app : s \in {x \in subs : x.driver = d}} :
          Count(sent', NodeDeleted(d, a)) = 1

C10_SubscriptionsNameRegisteredNodes ==
    \A s \in subs : s.app \in DOMAIN nodes /\ s.driver \in DOMAIN nodes

Registered(n) == n \in DOMAIN nodes
TypeOf(n) == PluginInfo[nodes[n].plugin].type
ModuleOf(n) == PluginInfo[nodes[n].plugin].module_name
\* the MQTT guard of neu_manager_subscribe applies to the call
EmptyMqttTopic(a) ==
    /\ Registered(a.app)
    /\ ModuleOf(a.app) = "MQTT"
    /\ a.params = "{topic:''}"

\* C11: neu_manager_subscribe records a subscription only if the app is
\* registered and is an APP, the driver is registered and has the group; a
\* missing app or driver gives NODE_NOT_EXIST, a subscriber that is no APP
\* gives NODE_NOT_ALLOW_SUBSCRIBE, a missing group gives GROUP_NOT_EXIST, and
\* a failing call leaves the subscriptions as they were.
C11_SubscribeChecksBothEnds ==
    [][m_last'.op = "subscribe"
       => LET a == m_last'.arg
              ret == m_last'.ret
          IN /\ ret = "SUCCESS"
                  => /\ Registered(a.app) /\ TypeOf(a.app) = "APP"
                     /\ Registered(a.driver)
                     /\ a.group \in nodes[a.driver].groups
                     /\ subs' = subs \cup {[driver |-> a.driver, group |-> a.group,
                                            app |-> a.app]}
             /\ ret # "SUCCESS" => subs' = subs
             /\ ~Registered(a.app) => ret = "NODE_NOT_EXIST"
             /\ (Registered(a.app) /\ TypeOf(a.app) # "APP")
                  => ret = "NODE_NOT_ALLOW_SUBSCRIBE"
             /\ (/\ Registered(a.app) /\ TypeOf(a.app) = "APP"
                 /\ ~EmptyMqttTopic(a))
                  => /\ ~Registered(a.driver) => ret = "NODE_NOT_EXIST"
                     /\ (Registered(a.driver)
                         /\ a.group \notin nodes[a.driver].groups)
                          => ret = "GROUP_NOT_EXIST"]_vars

\* C12: subscribing an app whose plugin is MQTT with params whose topic is
\* the empty string fails with MQTT_SUBSCRIBE_FAILURE and records nothing;
\* a non-empty topic, params without a topic, absent params and apps of any
\* other plugin are never answered with that code.
C12_EmptyMqttTopicRefused ==
    [][m_last'.op = "subscribe"
       => IF EmptyMqttTopic(m_last'.arg)
          THEN m_last'.ret = "MQTT_SUBSCRIBE_FAILURE" /\ subs' = subs
          ELSE m_last'.ret # "MQTT_SUBSCRIBE_FAILURE"]_vars

\* an MQTT app was refused for its empty topic on a group its driver has,
\* while it holds another subscription
C12_Witness ==
    /\ m_last.op = "subscribe"
    /\ m_last.ret = "MQTT_SUBSCRIBE_FAILURE"
    /\ Registered(m_last.arg.driver)
    /\ m_last.arg.group \in nodes[m_last.arg.driver].groups
    /\ \E s \in subs : s.app = m_last.arg.app

KnownPlugin(p) == p \in DOMAIN PluginInfo
Instantiated(p) == \E n \in DOMAIN nodes : nodes[n].plugin = p
AddNodeRefusals == {"LIBRARY_NOT_FOUND", "LIBRARY_NOT_ALLOW_CREATE_INSTANCE",
                    "NODE_EXIST"}

\* C13 as stated: neu_manager_add_node returns LIBRARY_NOT_FOUND for an
\* unknown plugin, LIBRARY_NOT_ALLOW_CREATE_INSTANCE for a singleton plugin
\* that already has an instance, NODE_EXIST for a taken name, in that
\* order; a singleton plugin without an instance is not refused for being a
\* singleton; on each of these errors the nodes are as they were.
C13_AddNodeRefusesInstantiatedSingleton ==
    [][m_last'.op = "add_node"
       => LET a == m_last'.arg
              ret == m_last'.ret
          IN /\ ~KnownPlugin(a.plugin) => ret = "LIBRARY_NOT_FOUND"
             /\ (KnownPlugin(a.plugin) /\ PluginInfo[a.plugin].single)
                  => (ret = "LIBRARY_NOT_ALLOW_CREATE_INSTANCE"
                        <=> Instantiated(a.plugin))
             /\ (/\ KnownPlugin(a.plugin) /\ ~PluginInfo[a.plugin].single
                 /\ Registered(a.node))
                  => ret = "NODE_EXIST"
             /\ ret \in AddNodeRefusals => nodes' = nodes]_vars

\* C13 as amended: neu_manager_add_node returns LIBRARY_NOT_FOUND for an
\* unknown plugin, LIBRARY_NOT_ALLOW_CREATE_INSTANCE for every singleton
\* plugin, with or without an instance, NODE_EXIST for a taken name, in
\* that order; it succeeds only for a known plugin that is no singleton and
\* a free name; on each of these errors the nodes are as they were.
C13_AddNodeRefusesEverySingleton ==
    [][m_last'.op = "add_node"
       => LET a == m_last'.arg
              ret == m_last'.ret
          IN /\ ~KnownPlugin(a.plugin) => ret = "LIBRARY_NOT_FOUND"
             /\ (KnownPlugin(a.plugin) /\ PluginInfo[a.plugin].single)
                  => ret = "LIBRARY_NOT_ALLOW_CREATE_INSTANCE"
             /\ (/\ KnownPlugin(a.plugin) /\ ~PluginInfo[a.plugin].single
                 /\ Registered(a.node))
                  => ret = "NODE_EXIST"
             /\ ret = "SUCCESS"
                  => /\ KnownPlugin(a.plugin) /\ ~PluginInfo[a.plugin].single
                     /\ ~Registered(a.node)
                     /\ a.node \in DOMAIN nodes'
                     /\ nodes'[a.node].plugin = a.plugin
             /\ ret \in AddNodeRefusals => nodes' = nodes]_vars

\* the singleton plugin was refused for a free name while it had no instance
C13_Witness ==
    /\ m_last.op = "add_node"
    /\ m_last.ret = "LIBRARY_NOT_ALLOW_CREATE_INSTANCE"
    /\ ~Instantiated(m_last.arg.plugin)
    /\ ~Registered(m_last.arg.node)

\* C14: when applying the setting fails, neu_manager_add_node returns the
\* setting's error code and the node is unregistered again: the nodes, the
\* subscriptions and the persisted nodes are as before the call, a lookup of
\* the name finds nothing and the same name can be added again.
C14_RefusedSettingUnregisters ==
    [][(m_last'.op = "add_node" /\ m_last'.ret = "NODE_SETTING_INVALID")
       => /\ m_last'.arg.node \notin DOMAIN nodes'
          /\ nodes' = nodes /\ subs' = subs /\ storage' = storage
          /\ neu_manager_add_node(
                 [nodes |-> nodes', subs |-> subs', storage |-> storage',
                  sent |-> <<>>, alive |-> alive'],
                 m_last'.arg.node, m_last'.arg.plugin, "good", "none").ret
               = "SUCCESS"]_vars

\* a setting was refused for a node added next to a driver that is
\* subscribed to
C14_Witness ==
    /\ m_last.op = "add_node"
    /\ m_last.ret = "NODE_SETTING_INVALID"
    /\ \E s \in subs : s.driver # m_last.arg.node /\ Registered(s.driver)

FunctionRoundTrip ==
    \A name \in NodeNames, plugin \in PluginNames, setting \in Settings :
       LET a == neu_manager_add_node(St, name, plugin, setting, "none") IN
       a.ret = "SUCCESS"
       => LET d == neu_manager_del_node(a.st, name) IN
          d.ret = "SUCCESS" /\ d.st.nodes = nodes /\ d.st.subs = subs

\* the subscriptions with the name old replaced by new, at the driver end
\* when old is registered as a driver and at the app end otherwise
RenamedSubs(old, new) ==
    IF Registered(old) /\ TypeOf(old) = "DRIVER"
    THEN {[x EXCEPT !.driver = IF @ = old THEN new ELSE @] : x \in subs}
    ELSE {[x EXCEPT !.app = IF @ = old THEN new ELSE @] : x \in subs}

\* C16: neu_manager_update_node_name(old, new) either succeeds, and the node
\* is registered as new and the subscriptions that named old name new, or
\* fails, and neither the nodes nor the subscriptions have changed: the
\* subscriptions are never renamed while the node keeps its old name.
C16_RenameIsTransactional ==
    [][m_last'.op = "update_node_name"
       => LET old == m_last'.arg.node
              new == m_last'.arg.new_name
          IN IF m_last'.ret = "SUCCESS"
             THEN /\ old \notin DOMAIN nodes'
                  /\ new \in DOMAIN nodes' /\ nodes'[new] = nodes[old]
                  /\ subs' = RenamedSubs(old, new)
             ELSE nodes' = nodes /\ subs' = subs]_vars

SubscribeGroup(a, receiver, params) ==
    [type |-> "SUBSCRIBE_GROUP", sender |-> "manager", receiver |-> receiver,
     app |-> a.app, driver |-> a.driver, group |-> a.group, params |-> params]

\* C17: neu_manager_send_subscribe reports success only if it has sent one
\* SUBSCRIBE_GROUP (sender "manager") to the app, carrying the params, and
\* one to the driver; a failed send to either side is reported to the caller.
C17_SendSubscribeReportsFailedSend ==
    (m_last.op = "send_subscribe" /\ m_last.ret = "SUCCESS")
    => /\ \E i \in 1..Len(sent) :
             sent[i] = SubscribeGroup(m_last.arg, m_last.arg.app, m_last.arg.params)
       /\ \E i \in 1..Len(sent) :
             /\ sent[i].receiver = m_last.arg.driver
             /\ sent[i].type = "SUBSCRIBE_GROUP" /\ sent[i].sender = "manager"
       /\ Len(sent) = 2

\* C18: when every entry of the table is in use, neu_event_add_timer and
\* neu_event_add_io return an error and leave the table as it was; when an
\* entry is free they succeed and occupy exactly one entry that was free.
C18_AddFailsOnlyWhenTableFull ==
    [][e_last'.op \in {"add_timer", "add_io"}
       => IF \A i \in Slots : event_datas[i].use
          THEN /\ e_last'.ret = "NULL"
               /\ e_state' = "running"
               /\ event_datas' = event_datas
          ELSE /\ e_last'.ret = "HANDLE"
               /\ \E i \in Slots :
                     /\ ~event_datas[i].use /\ event_datas'[i].use
                     /\ \A j \in Slots \ {i} : event_datas'[j] = event_datas[j]]_vars

BlockTimers == {i \in Slots : event_datas[i].use /\ event_datas[i].ttype = "BLOCK"}
InCallback(i) == loop.pc = "callback" /\ loop.cur = i
LastStart(d) == CHOOSE s \in d.starts : \A t \in d.starts : t <= s

\* C19: while the callback of a BLOCK timer runs the timer is out of the epoll
\* set, so the loop cannot enter it again; an invocation that follows a return
\* starts a full interval or more after that return; and between a return and
\* the end of that interval the timer holds no expiration.
C19_BlockTimerRearmedAfterReturn ==
    \A i \in BlockTimers :
        LET d == event_datas[i]
        IN /\ InCallback(i) => ~d.in_epoll
           /\ (InCallback(i) /\ d.ended # -1) => LastStart(d) >= d.ended + d.value
           /\ (~InCallback(i) /\ d.ended # -1 /\ time < d.ended + d.value)
                 => ~d.ready

\* a BLOCK timer's callback runs for the second time, after a first run during
\* which an expiration elapsed
C19_Witness ==
    \E i \in BlockTimers :
        LET d == event_datas[i]
        IN /\ InCallback(i) /\ d.ended # -1
           /\ LastStart(d) >= d.ended + d.value
           /\ \E s \in d.starts : s < LastStart(d) /\ s + d.value <= d.ended

\* the BLOCK timers that poll: added and not being deleted
Polling == {i \in BlockTimers : ~event_datas[i].stop}
Invocations(d, a, b) == Cardinality({s \in d.starts : a <= s /\ s <= b})

\* C20: over any window W much longer than the interval T of a polling BLOCK
\* timer, the number of invocations of its callback lies between
\* floor(W/T)-1 and floor(W/T)+1, however long the callbacks run.
C20_InvocationsWithinOneOfRate ==
    \A i \in Polling :
        LET d == event_datas[i]
        IN \A a \in d.armed..time : \A b \in a..time :
              (b - a >= Much * d.value)
              => /\ Invocations(d, a, b) >= ((b - a) \div d.value) - 1
                 /\ Invocations(d, a, b) <= ((b - a) \div d.value) + 1

\* C20 (amended): over any window W in the life of a polling BLOCK timer of
\* interval T the number of invocations of its callback is at most
\* floor(W/T)+1, however long the callbacks run.
C20_InvocationsAtMostRate ==
    \A i \in Polling :
        LET d == event_datas[i]
        IN \A a \in d.armed..time : \A b \in a..time :
              Invocations(d, a, b) <= ((b - a) \div d.value) + 1

\* a window of Much intervals in which slow callbacks let the timer run fewer
\* than floor(W/T)-1 times, and more than once
C20_Witness ==
    \E i \in Polling :
        LET d == event_datas[i]
        IN \E a \in d.armed..time : \E b \in a..time :
              /\ b - a >= Much * d.value
              /\ Invocations(d, a, b) >= 2
              /\ Invocations(d, a, b) < ((b - a) \div d.value) - 1

\* C21: whatever threads add and delete handles meanwhile, the loop handles
\* an event it holds only against the handle it was fetched for: it invokes no
\* callback of a handle whose delete has returned, none of another handle that
\* took the entry, and it does not lock the mutex a delete destroyed.
C21_LoopNeverHandlesDeletedHandle ==
    e_last.op \in {"timer", "io"}
    => e_last.ret \notin {"called_deleted", "called_other", "destroyed_mutex"}

\* C22: when neu_manager_send_subscribe returns, the copy of params and each
\* message it allocated is held by exactly one party: the receiver, if the
\* message it belongs to was sent, or nobody, the manager having freed it
\* once; nothing is left with the manager, nothing is freed twice or freed
\* after it was handed over, and the driver's message carries no params.
C22_SendSubscribeOwnership ==
    m_last.op = "send_subscribe"
    => LET h == m_last.arg.heap
           a == m_last.arg
           handed == {k \in {"app_msg", "driver_msg"} : h[k] = "receiver"}
       IN /\ h.app_msg \in {"none", "freed", "receiver"}
          /\ h.driver_msg \in {"none", "freed", "receiver"}
          /\ h.params \in {"none", "freed", "receiver"}
          /\ Len(sent) = Cardinality(handed)
          /\ h.app_msg = "receiver"
                => sent[1] = SubscribeGroup(a, a.app, a.params)
          /\ h.driver_msg = "receiver"
                => sent[Len(sent)] = SubscribeGroup(a, a.driver, "NULL")
          /\ h.params = "receiver" => h.app_msg = "receiver"

\* C23: neu_send_msg and neu_send_msg_to return 0 exactly when one whole
\* pointer was sent; neu_recv_msg and neu_recv_msg_from return 0 and set
\* *msg_p exactly when one whole pointer was received; every other result of
\* the system call gives a non-zero return and leaves *msg_p as it was.
C23_BusReportsTransferFailures ==
    [][/\ b_last'.op \in {"send", "send_to"}
          => /\ b_last'.ret = 0 <=> b_last'.n = PtrSize
             /\ b_last'.ret = 0 <=> bus' = Append(bus, b_last'.msg)
       /\ b_last'.op \in {"recv", "recv_from"}
          => /\ b_last'.ret = 0 <=> b_last'.n = PtrSize
             /\ b_last'.ret = 0
                   => bus # <<>> /\ bus' = Tail(bus) /\ msg_p' = Head(bus)
             /\ b_last'.ret # 0 => msg_p' = msg_p /\ bus' = bus]_vars

\* C24: TRANS_DATA for a (driver, group) that has no route publishes nothing
\* and adds exactly 1 to SEND_MSG_ERRORS_TOTAL.
C24_NoRouteCountsAnError ==
    [][(/\ q_last'.op = "trans_data"
        /\ ~route_tbl_get(route_tbl, q_last'.driver, q_last'.group))
       => /\ attempts' = attempts
          /\ metrics' = update_metric(metrics, "SEND_MSG_ERRORS_TOTAL", 1)]_vars

Attempts(states) == {k \in 1..Len(attempts) : attempts[k].state \in states}
RECURSIVE SentBytes(_)
SentBytes(ks) ==
    IF ks = {} THEN 0
    ELSE LET k == CHOOSE x \in ks : TRUE
         IN attempts[k].len + SentBytes(ks \ {k})

\* C25: every publish attempt is accounted once. One that completed well
\* added 1 to SEND_MSGS_TOTAL and its length to each SEND_BYTES counter and
\* nothing to the errors; one that the client refused or that completed with
\* an error added 1 to SEND_MSG_ERRORS_TOTAL and nothing else; one in flight
\* added nothing yet; a finished attempt's payload was freed exactly once, and
\* the counters are the sums over the attempts.
C25_PublishAccountedOnce ==
    /\ \A k \in 1..Len(attempts) :
          LET a == attempts[k]
          IN CASE a.state = "sent" ->
                    /\ a.ok = 1 /\ a.bytes = <<a.len, a.len, a.len>>
                    /\ a.err = 0 /\ a.frees = 1
               [] a.state \in {"failed", "refused"} ->
                    /\ a.ok = 0 /\ a.bytes = <<0, 0, 0>>
                    /\ a.err = 1 /\ a.frees = 1
               [] OTHER ->
                    /\ a.ok = 0 /\ a.bytes = <<0, 0, 0>>
                    /\ a.err = 0 /\ a.frees = 0
    /\ metrics.SEND_MSGS_TOTAL = Cardinality(Attempts({"sent"}))
    /\ metrics.SEND_MSG_ERRORS_TOTAL = Cardinality(Attempts({"failed", "refused"}))
    /\ metrics.SEND_BYTES_5S = SentBytes(Attempts({"sent"}))
    /\ metrics.SEND_BYTES_30S = SentBytes(Attempts({"sent"}))
    /\ metrics.SEND_BYTES_60S = SentBytes(Attempts({"sent"}))

\* every attempt is finished, one of them sent and one refused or failed
C25_Witness ==
    /\ Attempts({"sent"}) # {}
    /\ Attempts({"failed", "refused"}) # {}
    /\ Attempts({"inflight"}) = {}

\* the calls add_driver makes on the new node when the named step fails
PhaseCalls(fault) ==
    CASE fault = "validate" ->
           <<"neu_adapter_validate_gtags",
             "neu_adapter_uninit", "neu_manager_del_node">>
      [] fault = "try" ->
           <<"neu_adapter_validate_gtags", "neu_adapter_try_add_gtags",
             "neu_adapter_uninit", "neu_manager_del_node">>
      [] fault = "add" ->
           <<"neu_adapter_validate_gtags", "neu_adapter_try_add_gtags",
             "neu_adapter_add_gtags",
             "neu_adapter_uninit", "neu_manager_del_node">>
      [] fault = "none" ->
           <<"neu_adapter_validate_gtags", "neu_adapter_try_add_gtags",
             "neu_adapter_add_gtags">>
      [] OTHER -> <<>>

\* C26: add_driver runs the per-tag validation, the trial validation and the
\* commit in that order; the first of them that fails keeps the later ones
\* from running and the call from succeeding, the new node is uninitialized
\* and removed, and no group of the driver stays committed; when none fails
\* all three have run and the node holds the groups.
C26_FirstFailingPhaseStopsTheRest ==
    (m_last.op = "add_drivers" /\ alive)
    => /\ m_last.arg.calls = PhaseCalls(m_last.arg.fault)
       /\ m_last.arg.fault \in {"validate", "try", "add"}
            => /\ m_last.ret # "SUCCESS"
               /\ m_last.arg.names \cap DOMAIN nodes = {}
               /\ m_last.arg.names \cap storage = {}
       /\ m_last.arg.fault = "none"
            => /\ m_last.ret = "SUCCESS"
               /\ \A n \in m_last.arg.names :
                     /\ n \in DOMAIN nodes
                     /\ nodes[n].groups = 1..NEU_GROUP_MAX_PER_NODE

\* the trial validation refused a driver that replaces a driver with groups
C26_Witness ==
    /\ m_last.op = "add_drivers"
    /\ m_last.arg.fault = "try"
    /\ m_last.ret = "TAG_ADDRESS_FORMAT_INVALID"
    /\ m_last.arg.names = {"n1"}
    /\ "n2" \in DOMAIN nodes

\* the address as the characters it is written with
Letters == {"H", "L", "D", "E"}
Accepted == t_last.called /\ t_last.ret = 0

\* C27: for a STRING tag the parser returns -1 unless the address ends in
\* .<length> with length > 0, and an accepted address carries the encoding
\* its letter names: distinct encodings for H, L, D and E, and the encoding
\* of H when there is no letter.
C27_StringEncodingFollowsLetter ==
    (t_last.type = "STRING" /\ t_last.called)
    => LET op == find_last_character(t_last.address, ".")
           d == scan_int(t_last.address, op + 1)
       IN /\ Accepted <=> (op # 0 /\ d.ok /\ d.v > 0)
          /\ Accepted
               => /\ t_last.option.length = d.v
                  /\ \A a \in Addresses :
                        LET oa == find_last_character(a, ".")
                            da == scan_int(a, oa + 1)
                            ra == parse_string(a, da.v)
                        IN (/\ ra.ret = 0
                            /\ d.k = Len(t_last.address)
                            /\ da.k = Len(a)
                            /\ {t_last.address[d.k], a[da.k]} \subseteq Letters
                            /\ t_last.address[d.k] # a[da.k])
                           => ra.option.type # t_last.option.type
                  /\ d.k > Len(t_last.address)
                       => t_last.option.type = string_type("H")

\* C28: for a BIT tag the parser returns -1 unless the address ends in .<n>
\* with n in 0..15, and an accepted address yields the bit offset n.
C28_BitOffsetInRange ==
    (t_last.type = "BIT" /\ t_last.called)
    => LET op == find_last_character(t_last.address, ".")
           d == scan_int(t_last.address, op + 1)
       IN /\ Accepted <=> (op # 0 /\ d.ok /\ d.v \in 0..15)
          /\ Accepted
               => /\ t_last.option.op
                  /\ t_last.option.set
                  /\ t_last.option.bit = d.v

\* C29: the registered metrics are reference counted. A name is registered
\* exactly when its successful registrations outnumber its unregistrations,
\* and its counter is then that number; a conflicting registration returns
\* -1 and changes nothing; and unregistering a name that is not registered
\* has no effect: the registry is as before and the process goes on.
C29_RegistryIsReferenceCounted ==
    /\ r_alive
    /\ \A n \in MetricNames :
          /\ n \in DOMAIN registered_metrics <=> refs[n] > 0
          /\ n \in DOMAIN registered_metrics
               => registered_metrics[n].value = refs[n]
    /\ (r_last.op = "register" /\ r_last.ret = 0)
         => r_last.name \in DOMAIN registered_metrics

\* C30: under every interleaving of neu_group_change_test with a thread
\* that adds, updates or deletes tags or updates the interval, the callback
\* is handed the tags and the interval the group had when the timestamp it
\* is handed was written.
C30_CallbackGetsTheStampedTags ==
    [][(ct.pc = "call" /\ ct'.pc = "idle")
       => LET s == split_static_array(stamped.tags, 1, <<>>, <<>>) IN
          /\ consumer'.timestamp = group.timestamp
          /\ consumer'.static_tags = s.static_tags
          /\ consumer'.other_tags = s.other_tags
          /\ consumer'.interval = stamped.interval]_vars

\* a neu_event_del_timer call on the timer of that entry is under way
Deleting(i) ==
    /\ event_datas[i].use /\ event_datas[i].type = "TIMER"
    /\ event_datas[i].stop

\* C31: every neu_event_del_timer call returns, whether it is made by
\* another thread while the timer's callback runs or by the callback itself
\* (unless the process was ended by a failed assertion meanwhile).
C31_DelTimerReturns ==
    \A i \in Slots : Deleting(i) ~> (~Deleting(i) \/ e_state # "running")

\* C32: whatever add_timer, add_io, del_timer and del_io calls were made,
\* every handle that is live refers to an entry of the table and to one no
\* other live handle refers to, an entry is in use exactly when a live
\* handle refers to it or its del_timer is still under way, and at most
\* EVENT_SIZE entries are in use.
C32_SlotTable ==
    /\ e_state # "corrupted"
    /\ \A i \in Slots :
          /\ event_datas[i].refs \in {0, 1}
          /\ event_datas[i].use <=> (event_datas[i].refs = 1 \/ Deleting(i))
    /\ Cardinality({i \in Slots : event_datas[i].use}) <= EVENT_SIZE

\* C33: once neu_event_close is called the loop thread exits and the call
\* returns, whatever the loop was doing; and no timer or io callback is
\* invoked after the call has returned.
C33_CloseEndsTheLoop ==
    /\ (e_state = "closing") ~> (e_state = "closed" /\ loop.pc = "exited")
    /\ [][e_state = "closed"
            => ~(e_last'.op \in {"late_timer", "late_io"}
                 /\ e_last'.ret = "called")]_vars

\* the close came while a timer callback was running, and has returned
C33_Witness ==
    /\ e_state = "closed"
    /\ e_last.op = "close"
    /\ \E i \in Slots : event_datas[i].starts # {} /\ event_datas[i].ended >= 0

\* the counters of the registered nodes, counted one node after the other
RECURSIVE ExactCounts(_, _)
ExactCounts(nodes_, k) ==
    IF k = 0 THEN NoCounts
    ELSE count_node(ExactCounts(nodes_, k - 1), nodes_[k])

\* C34: whatever other visits run at the same time, the callback of
\* neu_metrics_visist is handed node totals, running counts and
\* disconnected counts that are those of the registered nodes.
C34_VisitCountsAreExact ==
    [][\A v \in Visitors :
          (visit[v].pc = "loop" /\ visit'[v].pc = "idle")
          => /\ v_seen'.by = v
             /\ v_seen'.counts =
                    ExactCounts(node_metrics, Len(node_metrics))]_vars

\* C35: when neu_manager_add_drivers returns an error, every node that was
\* registered before the call is still registered with its groups, every
\* subscription is still recorded, the call has sent no NODE_DELETED and no
\* UNSUBSCRIBE_GROUP, and has deleted no node from persistence.
C35_FailedBatchLeavesOldNodes ==
    [][(Returned("add_drivers") /\ m_last'.ret # "SUCCESS")
       => /\ \A n \in DOMAIN nodes :
                n \in DOMAIN nodes' /\ nodes'[n] = nodes[n]
          /\ subs \subseteq subs'
          /\ \A k \in 1..Len(sent') :
                sent'[k].type \notin {"NODE_DELETED", "UNSUBSCRIBE_GROUP"}
          /\ storage \subseteq storage']_vars

\* C36: neu_manager_subscribe refuses a request whose `driver` names a node
\* that is not of type DRIVER and records nothing, so every recorded
\* subscription has a DRIVER node in its driver field and an APP node in its
\* app field.
C36_SubscriptionsAreAgainstDrivers ==
    [][/\ (/\ m_last'.op = "subscribe"
           /\ Registered(m_last'.arg.driver)
           /\ TypeOf(m_last'.arg.driver) # "DRIVER")
          => (m_last'.ret # "SUCCESS" /\ subs' = subs)
       /\ \A s \in subs' :
             /\ s.driver \in DOMAIN nodes'
                  => PluginInfo[nodes'[s.driver].plugin].type = "DRIVER"
             /\ s.app \in DOMAIN nodes'
                  => PluginInfo[nodes'[s.app].plugin].type = "APP"]_vars

\* C37: at every step of every deletion path (neu_manager_del_node, the
\* rollback of a refused setting in neu_manager_add_node, the failure branch
\* of add_driver, the rollback loop of neu_manager_add_drivers, del_node) the
\* node manager holds no adapter that has been destroyed.
C37_NoDestroyedAdapterRegistered ==
    \A n \in node_manager : adapters[n] # "destroyed"

\* the call q_last' tells of was made for (driver, group) d, g with the table
\* as it is before the step
Routed(d, g) == \E e \in route_tbl : e.driver = d /\ e.group = g
WithoutRoute(d, g) == {e \in route_tbl : ~(e.driver = d /\ e.group = g)}
BadParams(p) == p # "NULL" /\ p \notin {"{topic:''}", "{topic:'/x'}"}
TopicOf(p, d, g) ==
    IF p = "NULL" THEN "/neuron/a1/" \o d \o "/" \o g
    ELSE IF p = "{topic:''}" THEN "" ELSE "/x"
\* what the handlers that remove routes do
RoutesRemoved ==
    /\ q_last'.op \in {"unsubscribe_group", "del_group"}
         => route_tbl' = WithoutRoute(q_last'.driver, q_last'.group)
    /\ q_last'.op = "del_driver"
         => route_tbl' = {e \in route_tbl : e.driver # q_last'.driver}
    /\ q_last'.op \in {"trans_data", "publish_cb"} => route_tbl' = route_tbl

C40_WideningAcceptsItsInputs ==
    (w_last.called /\ w_last.len >= 1 /\ w_last.buf_len >= 2 * w_last.len)
    => (~w_last.aborted /\ w_last.ret = 2 * w_last.len)
====
